---- MODULE Spec2Model ----
(***************************************************************************)
(* Model of the streaming chat orchestration of AgentifUI:                 *)
(*   src/lib/hooks/use-chat-interface.ts  (useChatInterface)               *)
(* The hook's asynchronous handlers are cut at their await points: each    *)
(* action below is the code that runs between two awaits.  The chat store, *)
(* the persistence hook, the current-app hook and the Dify services are    *)
(* not part of src/; what the hook needs of them is modelled from their    *)
(* use in the hook and said so where they are defined.                     *)
(*                                                                         *)
(* Not modelled: the store's currentConversationId, the pending-           *)
(* conversation store and the sidebar highlight (no claim reads them); a   *)
(* Dify stream that answers an existing conversation under another         *)
(* conversation id (lines 611-653 and 667-691 then do nothing).            *)
(***************************************************************************)
EXTENDS Integers, Sequences, FiniteSets, TLC

(***************************************************************************)
(* Bounds of the model.                                                    *)
(***************************************************************************)
MaxSubs == 2        \* handleSubmit invocations that pass the entry guards
MaxChunks == 2      \* chunks one answer stream yields
MaxNav == 2         \* user navigations
MaxStops == 2       \* handleStopProcessing invocations
MaxFailures == 1    \* database calls (saves, lookups) that fail
MaxTicks == 2       \* runs of the periodic streaming check
MaxEnv == 1         \* changes of the session or of the app configuration
MaxQuota == 1       \* the largest usage_quota given to setGroupAppPermission
MaxRows == 2        \* rows an RPC returns
MaxNodes == 2       \* nodes a chatflow execution tracks
MaxParts == 1       \* iterations, and parallel branches, of one node
MaxNodeEvents == 3  \* node events of one chatflow stream

(***************************************************************************)
(* Program constants.  Times are in units of 10 seconds.                   *)
(***************************************************************************)
ZombieThreshold == 3     \* 30000 ms (line 1594)
CheckInterval == 1       \* 10000 ms (line 1645)

Subs == 1..MaxSubs

NULL == "null"           \* null of a string-valued field
NoId == <<>>             \* null of a Dify conversation id (a token sequence)
NoMsg == 0               \* null of a message id; message ids are 1, 2, ...

(***************************************************************************)
(* Pathnames are sequences of tokens, so that includes / startsWith /      *)
(* replace / === are computed as the code computes them.                   *)
(***************************************************************************)
ChatPrefix == <<"/chat/">>
NewPath == <<"/chat/", "new">>                 \* '/chat/new'
TempMark == <<"/chat/", "temp-">>              \* '/chat/temp-'
TempPath == <<"/chat/", "temp-", "1">>         \* '/chat/temp-<Date.now()>'
NewsPath == <<"/chat/", "new", "s">>           \* '/chat/news'

ConvPath(id) == ChatPrefix \o id               \* `/chat/${id}`

StartsWith(s, p) ==
    /\ Len(s) >= Len(p)
    /\ SubSeq(s, 1, Len(p)) = p

Includes(s, p) ==
    \E i \in 0..(Len(s) - Len(p)) : SubSeq(s, i + 1, i + Len(p)) = p

\* String.prototype.replace(p, ''): the first occurrence of p removed.
RemoveFirst(s, p) ==
    IF ~Includes(s, p) THEN s
    ELSE LET i == CHOOSE k \in 0..(Len(s) - Len(p)) :
                     /\ SubSeq(s, k + 1, k + Len(p)) = p
                     /\ \A j \in 0..(k - 1) : SubSeq(s, j + 1, j + Len(p)) # p
         IN SubSeq(s, 1, i) \o SubSeq(s, i + Len(p) + 1, Len(s))

\* the test of lines 193-198 without its last conjunct
IsConversationPathIgnoringTemp(p) ==
    /\ StartsWith(p, ChatPrefix)
    /\ ~Includes(p, NewPath)

\* lines 193-198: the pathname names a conversation
IsConversationPath(p) ==
    /\ StartsWith(p, ChatPrefix)
    /\ ~Includes(p, NewPath)
    /\ ~Includes(p, TempMark)

\* lines 252-253: the pathname is a new or temporary conversation
IsNewOrTempPath(p) == p = NewPath \/ Includes(p, TempMark)

\* lines 373-375
UrlIndicatesNew(p) == p = NewPath \/ Includes(p, TempMark)

(***************************************************************************)
(* State.                                                                  *)
(***************************************************************************)
VARIABLES
    store,                  \* the chat store: messages, streamingMessageId,
                            \*   isWaitingForResponse, currentTaskId
    difyConversationId,     \* useState, line 150
    dbConversationUUID,     \* useState, line 153
    conversationAppId,      \* useState, line 156
    submitDbSnapshot,       \* the dbConversationUUID handleSubmit's closure holds
    isSubmittingRef,        \* useRef, line 160
    chunkBufferRef,         \* useRef, line 162
    appendTimerRef,         \* useRef, line 164
    lastStreamingCheckRef,  \* useRef, line 167
    currentUserId,          \* session?.user?.id
    currentAppId,           \* useCurrentApp().currentAppId
    isWelcomeScreen,        \* useChatInputStore().isWelcomeScreen
    windowPath,             \* window.location.pathname
    currentPathname,        \* usePathname() as of the last run of the route effect
    conversations,          \* the conversations table
    lookups,                \* route lookups in flight (fetchDbConversation)
    pc,                     \* where each handleSubmit invocation stands
    loc,                    \* each handleSubmit invocation's locals and closure
    cbPending,              \* new conversations whose database-id callback is due
    finalQueries,           \* invocations whose detached query of line 1002 is due
    stopCall,               \* the handleStopProcessing invocation in flight
    stopLookups,            \* detached queries of line 1488 in flight
    saves,                  \* every save the hook initiated, with its outcome
    asstFirst,              \* submissions whose assistant message the database
                            \*   wrote before it had written their user message
    budget,                 \* what is left of the bounds
    tables,                 \* the groups, group_members and
                            \*   group_app_permissions tables
    dbCall,                 \* the last call of a group-permissions function
    execution,              \* useChatflowExecutionStore
    chatflowStop            \* the chatflow handleStopProcessing in flight

vars == <<store, difyConversationId, dbConversationUUID, conversationAppId,
          submitDbSnapshot, isSubmittingRef, chunkBufferRef, appendTimerRef,
          lastStreamingCheckRef, currentUserId, currentAppId, isWelcomeScreen,
          windowPath, currentPathname, conversations, lookups, pc, loc,
          cbPending, finalQueries, stopCall, stopLookups, saves, asstFirst,
          budget, tables, dbCall, execution, chatflowStop>>

\* what the chat hook never touches
libVars == <<tables, dbCall, execution, chatflowStop>>
\* the state of useChatInterface and of what it works on
hookVars == <<store, difyConversationId, dbConversationUUID, conversationAppId,
              submitDbSnapshot, isSubmittingRef, chunkBufferRef,
              appendTimerRef, lastStreamingCheckRef, currentUserId,
              currentAppId, isWelcomeScreen, windowPath, currentPathname,
              conversations, lookups, pc, loc, cbPending, finalQueries,
              stopCall, stopLookups, saves, asstFirst, budget>>

Apps == {"a1", "a2"}
UserId == "u1"
OldConv == <<"c1">>                       \* a conversation of an earlier session
OldConvRecord == [ext |-> OldConv, id |-> "db-c1", app_id |-> "a2"]

NewConvId(s) == <<"n" \o ToString(s)>>    \* the id Dify gives submission s's conversation
NewDbId(s) == "db-n" \o ToString(s)       \* the uuid of its conversations row
TaskOf(s) == "t" \o ToString(s)           \* the task id of submission s's stream

Chunk(s, k) == 10 * s + k                 \* the k-th chunk of submission s's stream
UserText == <<0>>                         \* the user's (non-blank) message
ErrorText == <<-1>>                       \* the text of an error message

\* text.trim().length > 0; every chunk of the model is non-blank
HasContent(text) == Len(text) > 0

(***************************************************************************)
(* The chat store (lib/stores/chat-store, not in src/).                    *)
(***************************************************************************)
Message(isUser, text, isStreaming, status, error, s) ==
    [isUser |-> isUser, text |-> text, isStreaming |-> isStreaming,
     wasManuallyStopped |-> FALSE, persistenceStatus |-> status,
     db_id |-> FALSE, stopped_manually |-> FALSE, error |-> error,
     sub |-> s]

MsgIds(st) == DOMAIN st.messages

\* addMessage: the new message gets the next id
AddMessage(st, m) == [st EXCEPT !.messages = Append(@, m)]
LastId(st) == Len(st.messages)

\* appendMessageChunk(id, chunk)
AppendMessageChunk(st, id, chunk) ==
    IF id \in MsgIds(st)
    THEN [st EXCEPT !.messages[id].text = @ \o chunk]
    ELSE st

\* finalizeStreamingMessage(id)
FinalizeStreamingMessage(st, id) ==
    IF id \in MsgIds(st)
    THEN [st EXCEPT !.messages[id].isStreaming = FALSE,
                    !.streamingMessageId = IF @ = id THEN NoMsg ELSE @]
    ELSE st

\* markAsManuallyStopped(id)
MarkAsManuallyStopped(st, id) ==
    IF id \in MsgIds(st)
    THEN [st EXCEPT !.messages[id].isStreaming = FALSE,
                    !.messages[id].wasManuallyStopped = TRUE,
                    !.streamingMessageId = IF @ = id THEN NoMsg ELSE @]
    ELSE st

\* setMessageError(id, error)
SetMessageError(st, id) ==
    IF id \in MsgIds(st)
    THEN [st EXCEPT !.messages[id].isStreaming = FALSE,
                    !.messages[id].error = TRUE,
                    !.streamingMessageId = IF @ = id THEN NoMsg ELSE @]
    ELSE st

\* updateMessage(id, {persistenceStatus})
SetStatus(st, id, status) ==
    IF id \in MsgIds(st)
    THEN [st EXCEPT !.messages[id].persistenceStatus = status]
    ELSE st

SetIsWaitingForResponse(st, b) == [st EXCEPT !.isWaitingForResponse = b]
SetCurrentTaskId(st, t) == [st EXCEPT !.currentTaskId = t]
SetStreamingMessageId(st, id) == [st EXCEPT !.streamingMessageId = id]

\* selectIsProcessing
SelectIsProcessing(st) == st.isWaitingForResponse \/ st.streamingMessageId # NoMsg

(***************************************************************************)
(* The persistence hook (lib/hooks/use-chat-messages, not in src/): a save *)
(* is a request in flight; SaveDone completes it.                          *)
(***************************************************************************)
Save(msg, conv, fn, by, onErr) ==
    [msg |-> msg, conv |-> conv, fn |-> fn, by |-> by, onErr |-> onErr,
     n |-> 0, st |-> "inflight"]

\* the save joins the ones initiated so far, as the n-th of its message
InitiateSave(sv, r) ==
    sv \cup {[r EXCEPT !.n = Cardinality({x \in sv : x.msg = r.msg}) + 1]}

(***************************************************************************)
(* The conversations table and getConversationByExternalId                 *)
(* (lib/db/conversations, not in src/).                                    *)
(***************************************************************************)
NoRecord == [ext |-> NoId, id |-> NULL, app_id |-> NULL]

RecordOf(tbl, ext) ==
    IF \E r \in tbl : r.ext = ext
    THEN CHOOSE r \in tbl : r.ext = ext
    ELSE NoRecord

\* What a lookup delivers as result.data: the row, or nothing when there is no
\* row or the query failed or threw.
LookupOutcomes == {"ok", "fail"}
LookupData(tbl, ext, outcome) ==
    IF outcome = "ok" THEN RecordOf(tbl, ext) ELSE NoRecord

(***************************************************************************)
(* flushChunkBuffer (lines 173-186) and the append timer.                  *)
(***************************************************************************)
NoTimer == [target |-> NoMsg, live |-> FALSE]
Timer(id) == [target |-> id, live |-> TRUE]
\* appendTimerRef.current is truthy (a handle, live or already cleared)
TimerSet(t) == t.target # NoMsg

FlushChunkBuffer(st, buf, id) ==
    IF id # NoMsg /\ buf # <<>>
    THEN [store |-> AppendMessageChunk(st, id, buf), buf |-> <<>>, timer |-> NoTimer]
    ELSE [store |-> st, buf |-> buf, timer |-> NoTimer]

(***************************************************************************)
(* handleSubmit's closure: it is rebuilt when one of its dependencies      *)
(* (lines 1246-1270) changes, and dbConversationUUID is not one of them.   *)
(***************************************************************************)
SnapshotUpdate ==
    submitDbSnapshot' =
        IF <<difyConversationId', conversationAppId', currentPathname',
             currentUserId', isWelcomeScreen'>>
           # <<difyConversationId, conversationAppId, currentPathname,
               currentUserId, isWelcomeScreen>>
        THEN dbConversationUUID'
        ELSE submitDbSnapshot

\* What a run may still do: handleSubmit calls, user navigations, stops,
\* changes of the session or the app configuration, failing database calls,
\* periodic checks.
NoBudget == [sub |-> 0, nav |-> 0, stop |-> 0, env |-> 0, fail |-> 0, tick |-> 0,
             node |-> 0]

\* one submission, in a new or a historical conversation, with a stop and the
\* periodic check
SpecBudget == [NoBudget EXCEPT !.sub = 1, !.nav = 1, !.stop = 1, !.tick = MaxTicks]
\* handleSubmit calls that overlap
RaceBudget == [NoBudget EXCEPT !.sub = MaxSubs]
\* one submission and stops, while the session or the app configuration goes
SessionBudget == [NoBudget EXCEPT !.sub = 1, !.stop = MaxStops, !.env = MaxEnv]
\* navigation, with lookups that may fail, and one submission
RouteBudget == [NoBudget EXCEPT !.sub = 1, !.nav = MaxNav, !.fail = MaxFailures]
\* one submission under the timer that runs for ever
TimerBudget == [NoBudget EXCEPT !.sub = 1]
\* a submission, a stop and further submissions
ResubmitBudget == [NoBudget EXCEPT !.sub = MaxSubs, !.stop = 1]
\* a chatflow submission, the node events of its stream and a stop
ChatflowBudget == [NoBudget EXCEPT !.sub = 1, !.stop = 1, !.node = MaxNodeEvents]

\* a database call may fail while the bound allows
MayFail(failed) == ~failed \/ budget.fail > 0
BudgetAfter(failed) == IF failed THEN [budget EXCEPT !.fail = @ - 1] ELSE budget

InitLoc ==
    [dify |-> NoId, db |-> NULL, histApp |-> NULL, path |-> <<>>,
     appId |-> NULL, userMsg |-> NoMsg, asst |-> NoMsg, finalDb |-> NULL,
     realConv |-> NoId, taskId |-> NULL, isNew |-> FALSE, yielded |-> 0,
     ended |-> "no"]

NoCheck == [messageId |-> NoMsg, content |-> <<>>, age |-> 0]
NoStop == [pc |-> "idle", sid |-> NoMsg, task |-> NULL, app |-> NULL,
           db |-> NULL, dify |-> NoId]

(***************************************************************************)
(* The state after the hook has mounted on /chat/new, with budget b.       *)
(***************************************************************************)
(***************************************************************************)
(* lib/db/group-permissions.ts: the tables and the values of the calls.    *)
(***************************************************************************)
GroupIds == {"g1", "g2"}
ServiceInstanceIds == {"a1"}              \* the app the permissions are about
NoQuota == -1                             \* usage_quota undefined or null
Quotas == {NoQuota} \cup 0..MaxQuota
SupabaseOutcomes == {"ok", "error", "throw"}  \* data, { error }, or a rejection

NoTables == [groups |-> {}, group_members |-> {}, group_app_permissions |-> {}]
NoCall == [fn |-> "none", args |-> <<>>, outcome |-> "ok", counts |-> <<>>,
           result |-> [success |-> TRUE, data |-> <<>>, error |-> NULL]]

NoExecution == [nodes |-> <<>>, isExecuting |-> FALSE]

InitWith(b) ==
    /\ store = [messages |-> <<>>, streamingMessageId |-> NoMsg,
                isWaitingForResponse |-> FALSE, currentTaskId |-> NULL]
    /\ difyConversationId = NoId
    /\ dbConversationUUID = NULL
    /\ conversationAppId = NULL
    /\ submitDbSnapshot = NULL
    /\ isSubmittingRef = FALSE
    /\ chunkBufferRef = <<>>
    /\ appendTimerRef = NoTimer
    /\ lastStreamingCheckRef = NoCheck
    /\ currentUserId = UserId
    /\ currentAppId = "a1"
    /\ isWelcomeScreen = TRUE
    /\ windowPath = NewPath
    /\ currentPathname = NewPath
    /\ conversations = {OldConvRecord}
    /\ lookups = <<>>
    /\ pc = [s \in Subs |-> "idle"]
    /\ loc = [s \in Subs |-> InitLoc]
    /\ cbPending = {}
    /\ finalQueries = {}
    /\ stopCall = NoStop
    /\ stopLookups = <<>>
    /\ saves = {}
    /\ asstFirst = {}
    /\ budget = b
    /\ tables = NoTables
    /\ dbCall = NoCall
    /\ execution = NoExecution
    /\ chatflowStop = "idle"

Init == InitWith(SpecBudget)

storeVars == <<store, saves, asstFirst>>
refVars == <<isSubmittingRef, chunkBufferRef, appendTimerRef, lastStreamingCheckRef>>
idVars == <<difyConversationId, dbConversationUUID, conversationAppId>>
envVars == <<currentUserId, currentAppId, isWelcomeScreen, conversations>>
pathVars == <<windowPath, currentPathname>>
subVars == <<pc, loc, cbPending, finalQueries>>
stopVars == <<stopCall, stopLookups>>

RemoveAt(q, i) == SubSeq(q, 1, i - 1) \o SubSeq(q, i + 1, Len(q))

(***************************************************************************)
(* The environment: the user navigates, the session ends, the current app  *)
(* configuration goes away.                                                *)
(***************************************************************************)
NavPaths == {NewPath, ConvPath(OldConv), NewsPath}

Logout ==
    /\ budget.env > 0
    /\ currentUserId # NULL
    /\ currentUserId' = NULL
    /\ budget' = [budget EXCEPT !.env = @ - 1]
    /\ UNCHANGED <<storeVars, refVars, idVars, currentAppId, isWelcomeScreen,
                   conversations, pathVars, subVars, stopVars, lookups>>
    /\ SnapshotUpdate

AppConfigLost ==
    /\ budget.env > 0
    /\ currentAppId # NULL
    /\ currentAppId' = NULL
    /\ budget' = [budget EXCEPT !.env = @ - 1]
    /\ UNCHANGED <<storeVars, refVars, idVars, currentUserId, isWelcomeScreen,
                   conversations, pathVars, subVars, stopVars, lookups,
                   submitDbSnapshot>>

(***************************************************************************)
(* The route listener (lines 191-261): the effect runs once the pathname   *)
(* has changed; its lookup completes later.                                *)
(***************************************************************************)
RouteIds(p) ==
    IF IsConversationPath(p)
    THEN [dify |-> RemoveFirst(p, ChatPrefix), db |-> dbConversationUUID,
          app |-> conversationAppId, fetch |-> TRUE]
    ELSE IF IsNewOrTempPath(p)
    THEN [dify |-> NoId, db |-> NULL, app |-> NULL, fetch |-> FALSE]
    ELSE [dify |-> difyConversationId, db |-> dbConversationUUID,
          app |-> conversationAppId, fetch |-> FALSE]

\* the effect's run for pathname p
RouteRun(p) ==
    /\ currentPathname' = p
    /\ LET r == RouteIds(p) IN
         /\ difyConversationId' = r.dify
         /\ dbConversationUUID' = r.db
         /\ conversationAppId' = r.app
         /\ lookups' = IF r.fetch THEN Append(lookups, r.dify) ELSE lookups
    /\ UNCHANGED <<storeVars, refVars, envVars, subVars, stopVars>>
    /\ SnapshotUpdate

\* the run after the hook itself replaced the route (lines 360, 500, 859)
RouteEffect ==
    /\ currentPathname # windowPath
    /\ RouteRun(windowPath)
    /\ UNCHANGED <<windowPath, budget>>

\* the user navigates to p: the pathname changes and the effect runs
Navigate(p) ==
    /\ budget.nav > 0
    /\ p # windowPath
    /\ windowPath' = p
    /\ RouteRun(p)
    /\ budget' = [budget EXCEPT !.nav = @ - 1]

\* lines 211-247: what fetchDbConversation sets from the lookup's result
FetchedIds(data) ==
    IF data.id # NULL
    THEN [db |-> data.id, app |-> data.app_id]
    ELSE [db |-> NULL, app |-> NULL]

RouteLookupDone(i, outcome) ==
    /\ i \in DOMAIN lookups
    /\ MayFail(outcome # "ok")
    /\ budget' = BudgetAfter(outcome # "ok")
    /\ LET r == FetchedIds(LookupData(conversations, lookups[i], outcome)) IN
         /\ dbConversationUUID' = r.db
         /\ conversationAppId' = r.app
    /\ lookups' = RemoveAt(lookups, i)
    /\ UNCHANGED <<storeVars, refVars, difyConversationId, envVars, pathVars,
                   subVars, stopVars>>
    /\ SnapshotUpdate

(***************************************************************************)
(* handleSubmit (lines 263-1271).                                          *)
(***************************************************************************)
\* lines 265-281: the three early returns
SubmitBlocked ==
    \/ isSubmittingRef
    \/ SelectIsProcessing(store)
    \/ currentUserId = NULL

\* The next unused invocation.
NextSub(s) == pc[s] = "idle" /\ \A t \in Subs : t < s => pc[t] # "idle"

\* A call that one of the guards turns away returns at once.
SubmitRejected ==
    /\ SubmitBlocked
    /\ UNCHANGED vars

\* lines 263-297: the guards pass; the closure's values are those of the last
\* render; the handler awaits validateConfig / ensureAppReady.
SubmitCall(s) ==
    /\ NextSub(s)
    /\ budget.sub > 0
    /\ ~SubmitBlocked
    /\ budget' = [budget EXCEPT !.sub = @ - 1]
    /\ loc' = [loc EXCEPT ![s] = [InitLoc EXCEPT !.dify = difyConversationId,
                                                 !.db = submitDbSnapshot,
                                                 !.histApp = conversationAppId,
                                                 !.path = currentPathname]]
    /\ pc' = [pc EXCEPT ![s] = "config"]
    /\ UNCHANGED <<storeVars, refVars, idVars, envVars, pathVars, cbPending,
                   finalQueries, stopVars, lookups, submitDbSnapshot>>

\* userMessage is the object addMessage returned: the handler keeps reading
\* that object, not the store's copy.
UserSnapshot(s) == Message(TRUE, UserText, FALSE, "pending", FALSE, s)
UserUnsaved(u) == u.persistenceStatus # "saved"
UserUnsavedNoDbId(u) == u.persistenceStatus # "saved" /\ ~u.db_id

\* lines 292-311: the apps ensureAppReady may deliver (use-current-app is not in
\* src/): the conversation's app when the switch worked, the current app when
\* it did not, any app when none is loaded yet.
AppChoices(histApp) ==
    IF histApp # NULL
    THEN {histApp} \cup ({currentAppId} \ {NULL})
    ELSE IF currentAppId # NULL THEN {currentAppId} ELSE Apps

\* lines 314-328: the configuration could not be had
SubmitConfigFailed(s) ==
    /\ pc[s] = "config"
    /\ store' = AddMessage(store, Message(FALSE, ErrorText, FALSE, "error", TRUE, s))
    /\ pc' = [pc EXCEPT ![s] = "done"]
    /\ UNCHANGED <<saves, asstFirst, refVars, idVars, envVars, pathVars, loc,
                   cbPending, finalQueries, stopVars, lookups, budget,
                   submitDbSnapshot>>

\* the flow is decided by the URL alone
IsNewConversationFlowByUrlOnly(path, dify) == UrlIndicatesNew(path)

\* lines 373-376
IsNewConversationFlow(path, dify) == UrlIndicatesNew(path) \/ dify = NoId

\* lines 556-581: the early save of the user message of an existing conversation
EarlySave(sv, s, userMsg, finalDb) ==
    IF finalDb # NULL /\ UserUnsaved(UserSnapshot(s))
    THEN InitiateSave(sv, Save(userMsg, finalDb, "saveMessage", "early", FALSE))
    ELSE sv

\* lines 330-447 and 532-536: from the flags to the first await of the try block
SubmitStart(s, app) ==
    /\ pc[s] = "config"
    /\ app \in AppChoices(loc[s].histApp)
    /\ currentAppId' = app
    /\ isSubmittingRef' = TRUE
    /\ LET st1 == AddMessage(SetIsWaitingForResponse(store, TRUE), UserSnapshot(s))
           userMsg == LastId(st1)
           path1 == IF isWelcomeScreen /\ windowPath = NewPath
                    THEN TempPath ELSE windowPath
           isNew == IsNewConversationFlow(path1, loc[s].dify)
           finalDb == IF ~isNew THEN loc[s].db ELSE NULL
       IN
         /\ store' = SetCurrentTaskId(st1, NULL)
         /\ isWelcomeScreen' = FALSE
         /\ windowPath' = path1
         /\ difyConversationId' =
                IF isNew /\ loc[s].dify # NoId THEN NoId ELSE difyConversationId
         /\ chunkBufferRef' = <<>>
         /\ loc' = [loc EXCEPT ![s].appId = app, ![s].userMsg = userMsg,
                               ![s].isNew = isNew, ![s].finalDb = finalDb]
         /\ saves' = IF isNew THEN saves ELSE EarlySave(saves, s, userMsg, finalDb)
         /\ pc' = [pc EXCEPT ![s] =
                      IF isNew THEN "initiate"
                      ELSE IF finalDb # NULL THEN "streamCall"
                      ELSE "lookupExisting"]
    /\ UNCHANGED <<asstFirst, appendTimerRef, lastStreamingCheckRef,
                   dbConversationUUID, conversationAppId, currentUserId,
                   conversations, currentPathname, cbPending, finalQueries,
                   stopVars, lookups, budget>>
    /\ SnapshotUpdate

\* lines 537-581: the lookup of an existing conversation's database id returns
SubmitLookupExisting(s, outcome) ==
    /\ MayFail(outcome # "ok")
    /\ budget' = BudgetAfter(outcome # "ok")
    /\ pc[s] = "lookupExisting"
    /\ LET data == LookupData(conversations, loc[s].dify, outcome) IN
         /\ loc' = [loc EXCEPT ![s].finalDb = data.id]
         /\ dbConversationUUID' =
                IF data.id # NULL THEN data.id ELSE dbConversationUUID
         /\ saves' = EarlySave(saves, s, loc[s].userMsg, data.id)
    /\ pc' = [pc EXCEPT ![s] = "streamCall"]
    /\ UNCHANGED <<store, asstFirst, refVars, difyConversationId,
                   conversationAppId, envVars, pathVars, cbPending, finalQueries,
                   stopVars, lookups,  submitDbSnapshot>>

(***************************************************************************)
(* handleSubmit, after the stream: saves, catch and finally.               *)
(***************************************************************************)
\* lines 955-958
NeedsSaving(m) ==
    /\ ~m.db_id
    /\ m.persistenceStatus # "saved"
    /\ HasContent(m.text)

\* lines 905-1001: the saves after the stream, for the conversation conv
PostStreamSave(st, sv, s, l, conv) ==
    IF conv # NULL
    THEN LET sv1 == IF UserUnsavedNoDbId(UserSnapshot(s))
                    THEN InitiateSave(sv, Save(l.userMsg, conv, "saveMessage",
                                              "post", FALSE))
                    ELSE sv
         IN IF l.asst # NoMsg /\ l.asst \in MsgIds(st)
            THEN LET m == st.messages[l.asst]
                     st1 == IF m.isStreaming
                            THEN FinalizeStreamingMessage(st, l.asst) ELSE st
                 IN IF NeedsSaving(m)
                    THEN [store |-> SetStatus(st1, l.asst, "pending"),
                          saves |-> InitiateSave(sv1, Save(l.asst, conv,
                                        "saveMessage", "post", TRUE)),
                          query |-> FALSE]
                    ELSE [store |-> st1, saves |-> sv1, query |-> FALSE]
            ELSE [store |-> st, saves |-> sv1, query |-> FALSE]
    ELSE [store |-> st, saves |-> sv, query |-> l.realConv # NoId]

\* lines 1161-1166: the finally block may save the message it finalizes
FinallyMaySave(conv, m) ==
    /\ conv # NULL
    /\ m.persistenceStatus # "saved"
    /\ ~m.db_id

\* clearTimeout(appendTimerRef.current): the handle stays in the ref
ClearTimeoutOnly(t) == [t EXCEPT !.live = FALSE]

\* lines 1149-1244: the store and the saves the finally block leaves
FinallyBlock(st, sv, s, l) ==
    LET conv == IF l.finalDb # NULL THEN l.finalDb ELSE l.db
        streaming == /\ l.asst # NoMsg
                     /\ l.asst \in MsgIds(st)
                     /\ st.messages[l.asst].isStreaming
        st1 == IF streaming THEN FinalizeStreamingMessage(st, l.asst) ELSE st
        r == IF streaming /\ FinallyMaySave(conv, st.messages[l.asst])
                /\ HasContent(st1.messages[l.asst].text)
             THEN [store |-> SetStatus(st1, l.asst, "pending"),
                   saves |-> InitiateSave(sv, Save(l.asst, conv,
                                 IF st1.messages[l.asst].wasManuallyStopped
                                 THEN "saveStoppedAssistantMessage"
                                 ELSE "saveMessage", "finally", TRUE))]
             ELSE [store |-> st1, saves |-> sv]
    IN [store |-> SetIsWaitingForResponse(r.store, FALSE), saves |-> r.saves]

\* lines 1054-1148: the store and the saves the catch block leaves
CatchBlock(st, sv, s, l) ==
    IF l.asst # NoMsg
    THEN LET st1 == SetMessageError(st, l.asst) IN
         IF /\ l.finalDb # NULL
            /\ l.asst \in MsgIds(st1)
            /\ st1.messages[l.asst].persistenceStatus # "saved"
         THEN [store |-> SetStatus(st1, l.asst, "pending"),
               saves |-> InitiateSave(sv, Save(l.asst, l.finalDb, "saveMessage",
                                         "catch", TRUE))]
         ELSE [store |-> st1, saves |-> sv]
    ELSE LET st1 == AddMessage(st, Message(FALSE, ErrorText, FALSE, "pending",
                                           TRUE, s))
             errId == LastId(st1)
         IN IF l.finalDb # NULL
            THEN LET sv1 == IF UserUnsaved(UserSnapshot(s))
                            THEN InitiateSave(sv, Save(l.userMsg, l.finalDb,
                                              "saveMessage", "catch", FALSE))
                            ELSE sv
                     sv2 == InitiateSave(sv1, Save(errId, l.finalDb,
                                              "saveMessage", "catch", TRUE))
                 IN [store |-> st1,
                     saves |-> InitiateSave(sv2, Save(NoMsg, l.finalDb,
                                   "saveErrorPlaceholder", "catch", FALSE))]
            ELSE [store |-> st1, saves |-> sv]

\* An exception inside the try block: catch, then finally, then the return.
Throw(s) ==
    /\ LET c == CatchBlock(store, saves, s, loc[s])
           f == FinallyBlock(c.store, c.saves, s, loc[s])
       IN /\ store' = f.store
          /\ saves' = f.saves
    /\ appendTimerRef' = ClearTimeoutOnly(appendTimerRef)
    /\ isSubmittingRef' = FALSE
    /\ pc' = [pc EXCEPT ![s] = "done"]

(***************************************************************************)
(* handleSubmit, a new conversation (lines 439-525).                       *)
(***************************************************************************)
\* line 477: initiateNewConversation delivers an error
SubmitInitiateFailed(s) ==
    /\ pc[s] = "initiate"
    /\ Throw(s)
    /\ UNCHANGED <<asstFirst, chunkBufferRef, lastStreamingCheckRef, idVars,
                   envVars, pathVars, loc, cbPending, finalQueries, stopVars,
                   lookups, budget, submitDbSnapshot>>

\* lines 485-506: it delivers the stream, the conversation's Dify id and the
\* task id; the route is replaced and the database id is looked up
SubmitInitiated(s, task) ==
    /\ pc[s] = "initiate"
    /\ task \in {NULL, TaskOf(s)}
    /\ loc' = [loc EXCEPT ![s].realConv = NewConvId(s), ![s].taskId = task]
    /\ windowPath' = IF loc[s].path # ConvPath(NewConvId(s))
                     THEN ConvPath(NewConvId(s)) ELSE windowPath
    /\ cbPending' = cbPending \cup {s}
    /\ pc' = [pc EXCEPT ![s] = "lookupNew"]
    /\ UNCHANGED <<storeVars, refVars, idVars, envVars, currentPathname,
                   finalQueries, stopVars, lookups, budget, submitDbSnapshot>>

\* lines 449-473: the callback with the database id of the new conversation
\* (use-create-conversation, not in src/, has created the row by then)
DbIdCallback(s) ==
    /\ s \in cbPending
    /\ cbPending' = cbPending \ {s}
    /\ conversations' = conversations \cup
           {[ext |-> NewConvId(s), id |-> NewDbId(s), app_id |-> loc[s].appId]}
    /\ loc' = [loc EXCEPT ![s].finalDb = NewDbId(s)]
    /\ dbConversationUUID' = NewDbId(s)
    /\ saves' = IF UserUnsaved(UserSnapshot(s))
                THEN InitiateSave(saves, Save(loc[s].userMsg, NewDbId(s),
                                             "saveMessage", "callback", FALSE))
                ELSE saves
    /\ UNCHANGED <<store, asstFirst, refVars, difyConversationId,
                   conversationAppId, currentUserId, currentAppId,
                   isWelcomeScreen, pathVars, pc, finalQueries, stopVars,
                   lookups, budget, submitDbSnapshot>>

\* lines 506-525: the lookup returns; the task id is set
SubmitLookupNew(s, outcome) ==
    /\ MayFail(outcome # "ok")
    /\ budget' = BudgetAfter(outcome # "ok")
    /\ pc[s] = "lookupNew"
    /\ LET data == LookupData(conversations, loc[s].realConv, outcome) IN
         /\ loc' = [loc EXCEPT ![s].finalDb = data.id]
         /\ dbConversationUUID' =
                IF data.id # NULL THEN data.id ELSE dbConversationUUID
    /\ store' = IF loc[s].taskId # NULL
                THEN SetCurrentTaskId(store, loc[s].taskId) ELSE store
    /\ pc' = [pc EXCEPT ![s] = "stream"]
    /\ UNCHANGED <<saves, asstFirst, refVars, difyConversationId,
                   conversationAppId, envVars, pathVars, cbPending, finalQueries,
                   stopVars, lookups,  submitDbSnapshot>>

(***************************************************************************)
(* handleSubmit, an existing conversation (lines 608-699).  Dify answers   *)
(* with the conversation id it was sent.                                   *)
(***************************************************************************)
SubmitStreamCallFailed(s) ==
    /\ pc[s] = "streamCall"
    /\ Throw(s)
    /\ UNCHANGED <<asstFirst, chunkBufferRef, lastStreamingCheckRef, idVars,
                   envVars, pathVars, loc, cbPending, finalQueries, stopVars,
                   lookups, budget, submitDbSnapshot>>

SubmitStreamCall(s, task) ==
    /\ pc[s] = "streamCall"
    /\ task \in {NULL, TaskOf(s)}
    /\ loc' = [loc EXCEPT ![s].realConv = loc[s].dify, ![s].taskId = task]
    /\ store' = IF task # NULL /\ store.currentTaskId # task
                THEN SetCurrentTaskId(store, task) ELSE store
    /\ pc' = [pc EXCEPT ![s] = "stream"]
    /\ UNCHANGED <<saves, asstFirst, refVars, idVars, envVars, pathVars,
                   cbPending, finalQueries, stopVars, lookups, budget,
                   submitDbSnapshot>>

(***************************************************************************)
(* handleSubmit, the stream (lines 714-778).                               *)
(***************************************************************************)
\* lines 715-718: this turn of the loop creates the assistant message
CreatesAssistant(st, l) == st.streamingMessageId = NoMsg /\ l.asst = NoMsg

\* One turn of the for-await loop for chunk c.  imm: one of the conditions of
\* lines 747-751 holds (30 ms have passed, a newline, more than 200 characters).
LoopTurn(st, buf, timer, s, l, c, imm) ==
    LET created == CreatesAssistant(st, l)
        st0 == IF created
               THEN AddMessage(st, Message(FALSE, <<>>, TRUE, "none", FALSE, s))
               ELSE st
        asst == IF created THEN LastId(st0) ELSE l.asst
        st1 == IF created
               THEN SetIsWaitingForResponse(SetStreamingMessageId(st0, asst), FALSE)
               ELSE st0
    IN IF asst = NoMsg
       THEN [store |-> st1, buf |-> buf, timer |-> timer, asst |-> asst,
             broke |-> FALSE]
       ELSE IF st1.streamingMessageId = asst
       THEN IF imm
            THEN LET f == FlushChunkBuffer(st1, buf \o <<c>>, asst) IN
                 [store |-> f.store, buf |-> f.buf, timer |-> f.timer,
                  asst |-> asst, broke |-> FALSE]
            ELSE [store |-> st1, buf |-> buf \o <<c>>,
                  timer |-> IF ~TimerSet(timer) THEN Timer(asst) ELSE timer,
                  asst |-> asst, broke |-> FALSE]
       ELSE [store |-> IF asst \in MsgIds(st1) /\ ~st1.messages[asst].wasManuallyStopped
                       THEN MarkAsManuallyStopped(st1, asst) ELSE st1,
             buf |-> buf, timer |-> timer, asst |-> asst, broke |-> TRUE]

\* line 778
AfterLoop(st, buf, asst) == FlushChunkBuffer(st, buf, asst)

\* the stream yields its next chunk
StreamChunk(s, imm) ==
    /\ pc[s] = "stream"
    /\ loc[s].yielded < MaxChunks
    /\ LET k == loc[s].yielded + 1
           t == LoopTurn(store, chunkBufferRef, appendTimerRef, s, loc[s],
                         Chunk(s, k), imm)
           a == AfterLoop(t.store, t.buf, t.asst)
       IN /\ loc' = [loc EXCEPT ![s].yielded = k, ![s].asst = t.asst,
                                ![s].ended = IF t.broke THEN "break" ELSE @]
          /\ store' = IF t.broke THEN a.store ELSE t.store
          /\ chunkBufferRef' = IF t.broke THEN a.buf ELSE t.buf
          /\ appendTimerRef' = IF t.broke THEN a.timer ELSE t.timer
          /\ pc' = [pc EXCEPT ![s] = IF t.broke THEN "completion" ELSE "stream"]
    /\ UNCHANGED <<saves, asstFirst, isSubmittingRef, lastStreamingCheckRef,
                   idVars, envVars, pathVars, cbPending, finalQueries, stopVars,
                   lookups, budget, submitDbSnapshot>>

\* the stream ends
StreamEnd(s) ==
    /\ pc[s] = "stream"
    /\ LET a == AfterLoop(store, chunkBufferRef, loc[s].asst) IN
         /\ store' = a.store
         /\ chunkBufferRef' = a.buf
         /\ appendTimerRef' = a.timer
    /\ loc' = [loc EXCEPT ![s].ended = "end"]
    /\ pc' = [pc EXCEPT ![s] = "completion"]
    /\ UNCHANGED <<saves, asstFirst, isSubmittingRef, lastStreamingCheckRef,
                   idVars, envVars, pathVars, cbPending, finalQueries, stopVars,
                   lookups, budget, submitDbSnapshot>>

\* the stream throws
StreamFailed(s) ==
    /\ pc[s] = "stream"
    /\ Throw(s)
    /\ loc' = [loc EXCEPT ![s].ended = "error"]
    /\ UNCHANGED <<asstFirst, chunkBufferRef, lastStreamingCheckRef, idVars,
                   envVars, pathVars, cbPending, finalQueries, stopVars,
                   lookups, budget, submitDbSnapshot>>

\* lines 755-758: the append timer fires
AppendTimerFire ==
    /\ appendTimerRef.live
    /\ LET f == FlushChunkBuffer(store, chunkBufferRef, appendTimerRef.target) IN
         /\ store' = f.store
         /\ chunkBufferRef' = f.buf
         /\ appendTimerRef' = f.timer
    /\ UNCHANGED <<saves, asstFirst, isSubmittingRef, lastStreamingCheckRef,
                   idVars, envVars, pathVars, subVars, stopVars, lookups,
                   budget, submitDbSnapshot>>

(***************************************************************************)
(* handleSubmit, from the completion data to the return (lines 782-1244).  *)
(***************************************************************************)
\* lines 787-817
WithCompletion(st, asst, hasData) ==
    IF asst # NoMsg /\ hasData THEN SetStatus(st, asst, "pending") ELSE st

\* line 884: finalDbConvUUID || dbConversationUUID, the latter as the closure
\* holds it
CurrentDbConvId(l) == IF l.finalDb # NULL THEN l.finalDb ELSE l.db

\* lines 905-1244: the saves for conversation conv, the finally block, the return
Finish(s, st, conv) ==
    /\ LET p == PostStreamSave(st, saves, s, loc[s], conv)
           f == FinallyBlock(p.store, p.saves, s, loc[s])
       IN /\ store' = f.store
          /\ saves' = f.saves
          /\ finalQueries' = IF p.query THEN finalQueries \cup {s}
                             ELSE finalQueries
    /\ appendTimerRef' = ClearTimeoutOnly(appendTimerRef)
    /\ isSubmittingRef' = FALSE
    /\ pc' = [pc EXCEPT ![s] = "done"]

\* lines 844-869: the ids, the route and the task id are brought up to date
AfterStreamIds(s) ==
    /\ difyConversationId' =
           IF loc[s].realConv # NoId /\ loc[s].dify # loc[s].realConv
           THEN loc[s].realConv ELSE difyConversationId
    /\ windowPath' =
           IF loc[s].realConv # NoId /\ loc[s].path # ConvPath(loc[s].realConv)
           THEN ConvPath(loc[s].realConv) ELSE windowPath

TaskRefreshed(s, st) ==
    IF loc[s].taskId # NULL /\ st.currentTaskId # loc[s].taskId
    THEN SetCurrentTaskId(st, loc[s].taskId) ELSE st

\* lines 782-903: the completion promise settles
SubmitCompletion(s, hasData) ==
    /\ pc[s] = "completion"
    /\ AfterStreamIds(s)
    /\ LET st1 == TaskRefreshed(s, WithCompletion(store, loc[s].asst, hasData))
           conv == CurrentDbConvId(loc[s])
       IN IF conv = NULL /\ loc[s].realConv # NoId
          THEN /\ store' = st1
               /\ pc' = [pc EXCEPT ![s] = "requery"]
               /\ UNCHANGED <<saves, finalQueries, appendTimerRef,
                              isSubmittingRef>>
          ELSE Finish(s, st1, conv)
    /\ UNCHANGED <<asstFirst, chunkBufferRef, lastStreamingCheckRef,
                   dbConversationUUID, conversationAppId, envVars,
                   currentPathname, loc, cbPending, stopVars, lookups, budget>>
    /\ SnapshotUpdate

\* lines 892-903: the lookup of line 892 returns
SubmitRequery(s, outcome) ==
    /\ MayFail(outcome # "ok")
    /\ budget' = BudgetAfter(outcome # "ok")
    /\ pc[s] = "requery"
    /\ LET data == LookupData(conversations, loc[s].realConv, outcome) IN
         /\ dbConversationUUID' =
                IF data.id # NULL THEN data.id ELSE dbConversationUUID
         /\ Finish(s, store, data.id)
    /\ UNCHANGED <<asstFirst, chunkBufferRef, lastStreamingCheckRef,
                   difyConversationId, conversationAppId, envVars, pathVars,
                   loc, cbPending, stopVars, lookups,  submitDbSnapshot>>

\* lines 1012-1042: the saves of the detached query
FinalQuerySaves(st, sv, s, l, conv) ==
    LET sv1 == IF UserUnsaved(UserSnapshot(s))
               THEN InitiateSave(sv, Save(l.userMsg, conv, "saveMessage",
                                         "finalQuery", FALSE))
               ELSE sv
    IN IF /\ l.asst # NoMsg
          /\ l.asst \in MsgIds(st)
          /\ st.messages[l.asst].persistenceStatus # "saved"
       THEN InitiateSave(sv1, Save(l.asst, conv, "saveMessage", "finalQuery",
                                  FALSE))
       ELSE sv1

\* lines 1002-1051: the detached query returns
FinalQueryDone(s, outcome) ==
    /\ MayFail(outcome # "ok")
    /\ budget' = BudgetAfter(outcome # "ok")
    /\ s \in finalQueries
    /\ finalQueries' = finalQueries \ {s}
    /\ LET data == LookupData(conversations, loc[s].realConv, outcome) IN
         /\ dbConversationUUID' =
                IF data.id # NULL THEN data.id ELSE dbConversationUUID
         /\ loc' = IF data.id # NULL THEN [loc EXCEPT ![s].finalDb = data.id]
                   ELSE loc
         /\ saves' = IF data.id # NULL
                     THEN FinalQuerySaves(store, saves, s, loc[s], data.id)
                     ELSE saves
    /\ UNCHANGED <<store, asstFirst, refVars, difyConversationId,
                   conversationAppId, envVars, pathVars, pc, cbPending,
                   stopVars, lookups,  submitDbSnapshot>>

(***************************************************************************)
(* A save completes (lib/hooks/use-chat-messages, not in src/): on success *)
(* the message in the store becomes 'saved' and gets its db_id; on failure *)
(* the caller's catch handler runs.                                        *)
(***************************************************************************)
MarkSaved(st, id) ==
    IF id \in MsgIds(st)
    THEN [st EXCEPT !.messages[id].persistenceStatus = "saved",
                    !.messages[id].db_id = TRUE]
    ELSE st

\* the database has written message id
Written(sv, id) == \E r \in sv : r.msg = id /\ r.st = "ok"

\* the write of r puts an assistant message before its submission's user message
WritesAssistantFirst(st, sv, r) ==
    /\ r.msg \in MsgIds(st)
    /\ ~st.messages[r.msg].isUser
    /\ ~Written(sv, loc[st.messages[r.msg].sub].userMsg)

SaveDone(r, ok) ==
    /\ r \in saves
    /\ r.st = "inflight"
    /\ MayFail(~ok)
    /\ budget' = BudgetAfter(~ok)
    /\ saves' = (saves \ {r}) \cup {[r EXCEPT !.st = IF ok THEN "ok" ELSE "failed"]}
    /\ store' = IF ok THEN MarkSaved(store, r.msg)
                ELSE IF r.onErr THEN SetStatus(store, r.msg, "error")
                ELSE store
    /\ asstFirst' = IF ok /\ WritesAssistantFirst(store, saves, r)
                    THEN asstFirst \cup {store.messages[r.msg].sub}
                    ELSE asstFirst
    /\ UNCHANGED <<refVars, idVars, envVars, pathVars, subVars, stopVars,
                   lookups, submitDbSnapshot>>

(***************************************************************************)
(* checkStreamingState (lines 1557-1657), run by setInterval.  d is the    *)
(* time since the previous check: the interval, or longer when the timer   *)
(* was late or the effect re-ran and restarted the interval.               *)
(***************************************************************************)
TickDelays == {CheckInterval, ZombieThreshold + 1}

\* the threshold compared with >= where the code has >
ZombieExpiredAtThreshold(timeSinceLastUpdate) ==
    timeSinceLastUpdate >= ZombieThreshold

\* line 1594
ZombieExpired(timeSinceLastUpdate) == timeSinceLastUpdate > ZombieThreshold

\* the repair saves without asking for the database conversation id
RepairMaySaveAnyConversation(conv, m) ==
    /\ m.persistenceStatus # "saved"
    /\ ~m.db_id

\* lines 1612-1617 and 1331-1336: the repaired message may be saved
RepairMaySave(conv, m) ==
    /\ conv # NULL
    /\ m.persistenceStatus # "saved"
    /\ ~m.db_id

\* lines 1600-1624
ZombieRepair(st, sv, rec, id, m) ==
    LET st1 == SetIsWaitingForResponse(FinalizeStreamingMessage(st, id), FALSE)
        st2 == IF st1.currentTaskId # NULL THEN SetCurrentTaskId(st1, NULL) ELSE st1
    IN IF RepairMaySave(dbConversationUUID, m)
       THEN [store |-> SetStatus(st2, id, "pending"),
             saves |-> InitiateSave(sv, Save(id, dbConversationUUID, "saveMessage",
                                       "zombie", TRUE)),
             check |-> NoCheck]
       ELSE [store |-> st2, saves |-> sv, check |-> NoCheck]

CheckStreamingState(st, sv, rec, d) ==
    LET id == st.streamingMessageId IN
    IF id # NoMsg /\ id \in MsgIds(st) /\ st.messages[id].isStreaming
    THEN LET m == st.messages[id] IN
         IF rec = NoCheck
         THEN [store |-> st, saves |-> sv,
               check |-> [messageId |-> id, content |-> m.text, age |-> 0]]
         ELSE IF id = rec.messageId /\ m.text = rec.content
         THEN IF ZombieExpired(rec.age + d)
              THEN ZombieRepair(st, sv, rec, id, m)
              ELSE [store |-> st, saves |-> sv,
                    check |-> [rec EXCEPT !.age = rec.age + d]]
         ELSE [store |-> st, saves |-> sv,
               check |-> [messageId |-> id, content |-> m.text, age |-> 0]]
    ELSE [store |-> st, saves |-> sv, check |-> NoCheck]

CheckTick(d) ==
    /\ d \in TickDelays
    /\ LET r == CheckStreamingState(store, saves, lastStreamingCheckRef, d) IN
         /\ store' = r.store
         /\ saves' = r.saves
         /\ lastStreamingCheckRef' = r.check
    /\ UNCHANGED <<asstFirst, isSubmittingRef, chunkBufferRef, appendTimerRef,
                   idVars, envVars, pathVars, subVars, stopVars, lookups,
                   submitDbSnapshot>>

\* a check, while the bound allows
ZombieTick(d) ==
    /\ budget.tick > 0
    /\ CheckTick(d)
    /\ budget' = [budget EXCEPT !.tick = @ - 1]

\* a check of the timer that runs for ever
TimerTick(d) ==
    /\ CheckTick(d)
    /\ UNCHANGED budget

(***************************************************************************)
(* handleStopProcessing (lines 1303-1552).                                 *)
(***************************************************************************)
\* lines 1310-1321: a streaming message with content and no task id is taken
\* for a zombie
LooksLikeZombie(st) ==
    LET id == st.streamingMessageId IN
    /\ id # NoMsg
    /\ id \in MsgIds(st)
    /\ st.messages[id].isStreaming
    /\ HasContent(st.messages[id].text)
    /\ st.currentTaskId = NULL

\* lines 1326-1355: the repair; the handler returns after it
StopRepair(st, sv) ==
    LET id == st.streamingMessageId
        m == st.messages[id]
        st1 == SetIsWaitingForResponse(FinalizeStreamingMessage(st, id), FALSE)
    IN IF RepairMaySave(dbConversationUUID, m)
       THEN [store |-> SetStatus(st1, id, "pending"),
             saves |-> InitiateSave(sv, Save(id, dbConversationUUID, "saveMessage",
                                       "stopRepair", TRUE))]
       ELSE [store |-> st1, saves |-> sv]

\* lines 1360-1366: the early return without a logged-in user
StopNeedsUser == currentUserId = NULL

\* lines 1457-1459 and 1492-1496: the last user message not saved yet
UnsavedUserMessages(st) ==
    {i \in MsgIds(st) : /\ st.messages[i].isUser
                        /\ st.messages[i].persistenceStatus # "saved"
                        /\ ~st.messages[i].db_id}
RecentUserMessage(st) ==
    IF UnsavedUserMessages(st) = {} THEN NoMsg
    ELSE CHOOSE i \in UnsavedUserMessages(st) :
             \A j \in UnsavedUserMessages(st) : j <= i

\* the stopped message is marked, its persistence status left as it was
MarkStoppedKeepsStatus(st, id) ==
    IF id \in MsgIds(st)
    THEN [st EXCEPT !.messages[id].stopped_manually = TRUE,
                    !.messages[id].wasManuallyStopped = TRUE]
    ELSE st

\* lines 1426-1449: the stopped message is marked
MarkStopped(st, id) ==
    IF id \in MsgIds(st)
    THEN [st EXCEPT !.messages[id].stopped_manually = TRUE,
                    !.messages[id].wasManuallyStopped = TRUE,
                    !.messages[id].persistenceStatus = "pending"]
    ELSE st

\* lines 1453-1482: the user message is saved by the stop, in a new conversation
StopSavesUser(st, sv, conv, dify) ==
    IF RecentUserMessage(st) # NoMsg /\ IsNewConversationFlow(windowPath, dify)
    THEN InitiateSave(sv, Save(RecentUserMessage(st), conv, "saveMessage", "stop", FALSE))
    ELSE sv

\* lines 1421-1535: what follows the remote stop, for the message c.sid
StopTail(st, c) ==
    /\ LET st1 == MarkStopped(st, c.sid) IN
         /\ store' = SetIsWaitingForResponse(st1, FALSE)
         /\ saves' = IF c.db # NULL THEN StopSavesUser(st1, saves, c.db, c.dify)
                     ELSE saves
         /\ stopLookups' = IF c.db = NULL /\ c.dify # NoId
                           THEN Append(stopLookups, c.dify) ELSE stopLookups
    /\ isSubmittingRef' = FALSE
    /\ stopCall' = NoStop

\* lines 1303-1407: the call, up to its return or to the await of the remote stop
StopCall ==
    /\ stopCall.pc = "idle"
    /\ budget.stop > 0
    /\ budget' = [budget EXCEPT !.stop = @ - 1]
    /\ IF LooksLikeZombie(store)
       THEN /\ LET r == StopRepair(store, saves) IN
                 /\ store' = r.store
                 /\ saves' = r.saves
            /\ isSubmittingRef' = FALSE
            /\ UNCHANGED <<chunkBufferRef, appendTimerRef, stopCall, stopLookups>>
       ELSE IF StopNeedsUser
       THEN UNCHANGED <<store, saves, isSubmittingRef, chunkBufferRef,
                        appendTimerRef, stopCall, stopLookups>>
       ELSE IF store.streamingMessageId # NoMsg
       THEN LET sid == store.streamingMessageId
                task == store.currentTaskId
                f == FlushChunkBuffer(store, chunkBufferRef, sid)
                st1 == MarkAsManuallyStopped(f.store, sid)
                c == [pc |-> "remote", sid |-> sid, task |-> task,
                      app |-> currentAppId, db |-> dbConversationUUID,
                      dify |-> difyConversationId]
            IN /\ chunkBufferRef' = f.buf
               /\ appendTimerRef' = f.timer
               /\ IF task # NULL /\ currentAppId # NULL
                  THEN /\ store' = st1
                       /\ stopCall' = c
                       /\ UNCHANGED <<saves, isSubmittingRef, stopLookups>>
                  ELSE StopTail(IF task # NULL THEN SetCurrentTaskId(st1, NULL)
                                ELSE st1, c)
       ELSE /\ store' = SetIsWaitingForResponse(store, FALSE)
            /\ isSubmittingRef' = FALSE
            /\ UNCHANGED <<saves, chunkBufferRef, appendTimerRef, stopCall,
                           stopLookups>>
    /\ UNCHANGED <<asstFirst, lastStreamingCheckRef, idVars, envVars, pathVars,
                   subVars, lookups, submitDbSnapshot>>

\* lines 1402-1415: stopDifyStreamingTask returns or throws
StopRemoteDone(ok) ==
    /\ stopCall.pc = "remote"
    /\ StopTail(IF ok THEN SetCurrentTaskId(store, NULL) ELSE store, stopCall)
    /\ UNCHANGED <<asstFirst, chunkBufferRef, appendTimerRef,
                   lastStreamingCheckRef, idVars, envVars, pathVars, subVars,
                   lookups, budget, submitDbSnapshot>>

\* lines 1488-1528: the detached lookup of the stop returns
StopLookupDone(i, outcome) ==
    /\ MayFail(outcome # "ok")
    /\ budget' = BudgetAfter(outcome # "ok")
    /\ i \in DOMAIN stopLookups
    /\ stopLookups' = RemoveAt(stopLookups, i)
    /\ LET data == LookupData(conversations, stopLookups[i], outcome) IN
         saves' = IF data.id # NULL
                  THEN StopSavesUser(store, saves, data.id, stopLookups[i])
                  ELSE saves
    /\ UNCHANGED <<store, asstFirst, refVars, idVars, envVars, pathVars, subVars,
                   stopCall, lookups,  submitDbSnapshot>>

(***************************************************************************)
(* The steps of the hook, by handler.                                      *)
(***************************************************************************)
NewFlowSteps ==
    \/ SubmitRejected /\ UNCHANGED libVars
    \/ \E s \in Subs : SubmitCall(s) /\ UNCHANGED libVars
    \/ \E s \in Subs : SubmitConfigFailed(s) /\ UNCHANGED libVars
    \/ \E s \in Subs, a \in Apps : SubmitStart(s, a) /\ UNCHANGED libVars
    \/ \E s \in Subs : SubmitInitiateFailed(s) /\ UNCHANGED libVars
    \/ \E s \in Subs : \E t \in {NULL, TaskOf(s)} : SubmitInitiated(s, t) /\ UNCHANGED libVars
    \/ \E s \in Subs : DbIdCallback(s) /\ UNCHANGED libVars
    \/ \E s \in Subs, o \in LookupOutcomes : SubmitLookupNew(s, o) /\ UNCHANGED libVars
    \/ \E s \in Subs, imm \in BOOLEAN : StreamChunk(s, imm) /\ UNCHANGED libVars
    \/ \E s \in Subs : StreamEnd(s) /\ UNCHANGED libVars
    \/ \E s \in Subs : StreamFailed(s) /\ UNCHANGED libVars
    \/ AppendTimerFire /\ UNCHANGED libVars
    \/ \E s \in Subs, d \in BOOLEAN : SubmitCompletion(s, d) /\ UNCHANGED libVars
    \/ \E s \in Subs, o \in LookupOutcomes : SubmitRequery(s, o) /\ UNCHANGED libVars
    \/ \E s \in Subs, o \in LookupOutcomes : FinalQueryDone(s, o) /\ UNCHANGED libVars
    \/ \E r \in saves, ok \in BOOLEAN : SaveDone(r, ok) /\ UNCHANGED libVars

ExistingFlowSteps ==
    \/ \E s \in Subs, o \in LookupOutcomes : SubmitLookupExisting(s, o) /\ UNCHANGED libVars
    \/ \E s \in Subs : SubmitStreamCallFailed(s) /\ UNCHANGED libVars
    \/ \E s \in Subs : \E t \in {NULL, TaskOf(s)} : SubmitStreamCall(s, t) /\ UNCHANGED libVars

RouteSteps ==
    \/ \E p \in NavPaths : Navigate(p) /\ UNCHANGED libVars
    \/ RouteEffect /\ UNCHANGED libVars
    \/ \E i \in DOMAIN lookups, o \in LookupOutcomes : RouteLookupDone(i, o) /\ UNCHANGED libVars

EnvSteps ==
    \/ Logout /\ UNCHANGED libVars
    \/ AppConfigLost /\ UNCHANGED libVars

StopSteps ==
    \/ StopCall /\ UNCHANGED libVars
    \/ \E ok \in BOOLEAN : StopRemoteDone(ok) /\ UNCHANGED libVars
    \/ \E i \in DOMAIN stopLookups, o \in LookupOutcomes : StopLookupDone(i, o) /\ UNCHANGED libVars

TickSteps == \E d \in TickDelays : ZombieTick(d) /\ UNCHANGED libVars

HistorySteps ==
    \/ Navigate(ConvPath(OldConv)) /\ UNCHANGED libVars
    \/ RouteEffect /\ UNCHANGED libVars
    \/ \E i \in DOMAIN lookups, o \in LookupOutcomes : RouteLookupDone(i, o) /\ UNCHANGED libVars

\* handleSubmit without its failures
RaceSteps ==
    \/ SubmitRejected /\ UNCHANGED libVars
    \/ \E s \in Subs : SubmitCall(s) /\ UNCHANGED libVars
    \/ \E s \in Subs, a \in Apps : SubmitStart(s, a) /\ UNCHANGED libVars
    \/ \E s \in Subs : \E t \in {NULL, TaskOf(s)} : SubmitInitiated(s, t) /\ UNCHANGED libVars
    \/ \E s \in Subs : DbIdCallback(s) /\ UNCHANGED libVars
    \/ \E s \in Subs, o \in LookupOutcomes : SubmitLookupNew(s, o) /\ UNCHANGED libVars
    \/ \E s \in Subs, imm \in BOOLEAN : StreamChunk(s, imm) /\ UNCHANGED libVars
    \/ \E s \in Subs : StreamEnd(s) /\ UNCHANGED libVars
    \/ AppendTimerFire /\ UNCHANGED libVars
    \/ \E s \in Subs, d \in BOOLEAN : SubmitCompletion(s, d) /\ UNCHANGED libVars
    \/ \E s \in Subs, o \in LookupOutcomes : SubmitRequery(s, o) /\ UNCHANGED libVars

(***************************************************************************)
(* The specifications.                                                     *)
(***************************************************************************)
\* One submission, in a new or a historical conversation, with a manual stop
\* and the periodic check.
Next ==
    \/ NewFlowSteps
    \/ ExistingFlowSteps
    \/ HistorySteps
    \/ StopSteps
    \/ TickSteps

Spec == Init /\ [][Next]_vars

\* handleSubmit calls that overlap.
RaceInit == InitWith(RaceBudget)
RaceNext == RaceSteps
RaceSpec == RaceInit /\ [][RaceNext]_vars

\* One submission and stops, while the session or the app configuration goes.
SessionInit == InitWith(SessionBudget)
SessionNext ==
    \/ NewFlowSteps
    \/ StopSteps
    \/ EnvSteps
SessionSpec == SessionInit /\ [][SessionNext]_vars

\* Navigation between conversations, and one submission.
RouteInit == InitWith(RouteBudget)
RouteNext ==
    \/ NewFlowSteps
    \/ ExistingFlowSteps
    \/ RouteSteps
RouteSpec == RouteInit /\ [][RouteNext]_vars

\* One submission under the periodic check: setInterval keeps firing every
\* 10 seconds for as long as the hook is mounted.
TimerInit == InitWith(TimerBudget)
TimerNext ==
    \/ NewFlowSteps
    \/ TimerTick(CheckInterval) /\ UNCHANGED libVars
TimerSpec == TimerInit /\ [][TimerNext]_vars /\ WF_vars(TimerTick(CheckInterval) /\ UNCHANGED libVars)

\* The user stops a stream and submits again: handleSubmit is not called while
\* another call still waits for the app configuration, so that every call
\* sees the flags the calls before it have set.
ResubmitInit == InitWith(ResubmitBudget)
ResubmitNext ==
    \/ SubmitRejected /\ UNCHANGED libVars
    \/ \E s \in Subs : SubmitCall(s) /\ UNCHANGED libVars
                         /\ \A t \in Subs : pc[t] # "config"
    \/ \E s \in Subs, a \in Apps : SubmitStart(s, a) /\ UNCHANGED libVars
    \/ \E s \in Subs : \E t \in {NULL, TaskOf(s)} : SubmitInitiated(s, t) /\ UNCHANGED libVars
    \/ \E s \in Subs : DbIdCallback(s) /\ UNCHANGED libVars
    \/ \E s \in Subs, o \in LookupOutcomes : SubmitLookupNew(s, o) /\ UNCHANGED libVars
    \/ \E s \in Subs, imm \in BOOLEAN : StreamChunk(s, imm) /\ UNCHANGED libVars
    \/ \E s \in Subs : StreamEnd(s) /\ UNCHANGED libVars
    \/ AppendTimerFire /\ UNCHANGED libVars
    \/ \E s \in Subs, d \in BOOLEAN : SubmitCompletion(s, d) /\ UNCHANGED libVars
    \/ \E s \in Subs, o \in LookupOutcomes : SubmitRequery(s, o) /\ UNCHANGED libVars
    \/ StopSteps
ResubmitSpec == ResubmitInit /\ [][ResubmitNext]_vars

(***************************************************************************)
(* lib/db/group-permissions.ts.  Every function takes the tables and the   *)
(* outcome of its Supabase request, and gives the tables it leaves and the *)
(* Result it returns.  A request that returns an error or rejects has      *)
(* changed no row.                                                         *)
(***************************************************************************)
success(data) == [success |-> TRUE, data |-> data, error |-> NULL]
failure(error) == [success |-> FALSE, data |-> <<>>, error |-> error]

SupabaseMessage == "error.message"
Returns(t, r) == [tables |-> t, result |-> r]

\* the shape all the functions share: the error branch and the catch block
Fails(t, o, thrown) ==
    Returns(t, failure(IF o = "error" THEN SupabaseMessage ELSE thrown))

MembersOf(t, g) == {m \in t.group_members : m.group_id = g}
PermissionsOf(t, g) == {p \in t.group_app_permissions : p.group_id = g}
PermissionsAt(t, g, a) ==
    {p \in PermissionsOf(t, g) : p.service_instance_id = a}

\* cnt[g] is the outcome of the member count query of group g
getGroups(t, o, cnt) ==
    IF o # "ok" THEN Fails(t, o, "getGroups")
    ELSE IF \E g \in t.groups : cnt[g] = "throw"
    THEN Fails(t, "throw", "getGroups")
    ELSE Returns(t, success({[id |-> g,
                              member_count |-> IF cnt[g] = "error" THEN 0
                                               ELSE Cardinality(MembersOf(t, g))]
                             : g \in t.groups}))

createGroupUnchecked(t, g, o) ==
    Returns([t EXCEPT !.groups = @ \cup {g}], success(g))

createGroup(t, g, o) ==
    IF o # "ok" THEN Fails(t, o, "createGroup")
    ELSE Returns([t EXCEPT !.groups = @ \cup {g}], success(g))

updateGroup(t, g, o) ==
    IF o # "ok" THEN Fails(t, o, "updateGroup")
    ELSE Returns(t, success(g))

deleteGroup(t, g, o) ==
    IF o # "ok" THEN Fails(t, o, "deleteGroup")
    ELSE Returns([t EXCEPT !.groups = @ \ {g}], success(<<>>))

getGroupMembers(t, g, o) ==
    IF o # "ok" THEN Fails(t, o, "getGroupMembers")
    ELSE Returns(t, success(MembersOf(t, g)))

addGroupMember(t, g, u, o) ==
    IF o # "ok" THEN Fails(t, o, "addGroupMember")
    ELSE Returns([t EXCEPT !.group_members =
                               @ \cup {[group_id |-> g, user_id |-> u]}],
                 success([group_id |-> g, user_id |-> u]))

removeGroupMember(t, g, u, o) ==
    IF o # "ok" THEN Fails(t, o, "removeGroupMember")
    ELSE Returns([t EXCEPT !.group_members =
                               @ \ {[group_id |-> g, user_id |-> u]}],
                 success(<<>>))

getGroupAppPermissions(t, g, o) ==
    IF o # "ok" THEN Fails(t, o, "getGroupAppPermissions")
    ELSE Returns(t, success(PermissionsOf(t, g)))

\* supabase-js upsert of one row: the row of the same group and service
\* instance takes the given columns and keeps the others, or a new row is
\* inserted with the defaults of the table
Upsert(t, row) ==
    LET old == PermissionsAt(t, row.group_id, row.service_instance_id)
        new == [group_id |-> row.group_id,
                service_instance_id |-> row.service_instance_id,
                is_enabled |-> row.is_enabled,
                usage_quota |-> row.usage_quota,
                used_count |-> IF old = {} THEN 0
                               ELSE (CHOOSE p \in old : TRUE).used_count]
    IN  [t EXCEPT !.group_app_permissions = (@ \ old) \cup {new}]

\* data.usage_quota || null
QuotaOrNull(q) == IF q = NoQuota \/ q = 0 THEN NoQuota ELSE q

Placeholder(g, a) ==
    [group_id |-> g, service_instance_id |-> a, is_enabled |-> FALSE,
     usage_quota |-> NoQuota, used_count |-> 0]

setGroupAppPermissionKeepsRow(t, g, a, enabled, q, o) ==
    IF o # "ok" THEN Fails(t, o, "setGroupAppPermission")
    ELSE IF enabled
    THEN LET t2 == Upsert(t, [group_id |-> g, service_instance_id |-> a,
                              is_enabled |-> TRUE,
                              usage_quota |-> QuotaOrNull(q)])
         IN  Returns(t2, success(CHOOSE p \in PermissionsAt(t2, g, a) : TRUE))
    ELSE Returns(t, success(Placeholder(g, a)))

setGroupAppPermission(t, g, a, enabled, q, o) ==
    IF o # "ok" THEN Fails(t, o, "setGroupAppPermission")
    ELSE IF enabled
    THEN LET t2 == Upsert(t, [group_id |-> g, service_instance_id |-> a,
                              is_enabled |-> TRUE,
                              usage_quota |-> QuotaOrNull(q)])
         IN  Returns(t2, success(CHOOSE p \in PermissionsAt(t2, g, a) : TRUE))
    ELSE Returns([t EXCEPT !.group_app_permissions =
                               @ \ PermissionsAt(t, g, a)],
                 success(Placeholder(g, a)))

removeGroupAppPermission(t, g, a, o) ==
    IF o # "ok" THEN Fails(t, o, "removeGroupAppPermission")
    ELSE Returns([t EXCEPT !.group_app_permissions =
                               @ \ PermissionsAt(t, g, a)],
                 success(<<>>))

removeAllGroupAppPermissions(t, a, o) ==
    IF o # "ok" THEN Fails(t, o, "removeAllGroupAppPermissions")
    ELSE Returns([t EXCEPT !.group_app_permissions =
                               {p \in @ : p.service_instance_id # a}],
                 success(<<>>))

\* The three RPCs run in Postgres; what they return is an input: null, one
\* row, or an array of rows.
AccessRows == [has_access : BOOLEAN, error_message : {NULL}]
NoAccess == [has_access |-> FALSE, error_message |-> NULL]
RpcArrays == UNION {[1..n -> AccessRows] : n \in 0..MaxRows}
RpcData == [array : {TRUE}, rows : RpcArrays]
               \cup [array : {FALSE}, rows : {r \in RpcArrays : Len(r) <= 1}]
\* null, a row or a list of at most one row
ShortData == {d \in RpcData : Len(d.rows) <= 1 /\ d.rows # <<NoAccess>>}

\* Array.isArray(data) ? data[0] : data, <<>> for undefined or null
FirstRow(data) == IF data.rows = <<>> THEN <<>> ELSE data.rows[1]

\* the AppPermissionCheck of lines 500-504
NoRow == [has_access |-> FALSE, error_message |-> "checkUserAppPermission"]

getUserAccessibleApps(t, data, o) ==
    IF o # "ok" THEN Fails(t, o, "getUserAccessibleApps")
    ELSE Returns(t, success(data))

checkUserAppPermissionLastRow(t, data, o) ==
    IF o # "ok" THEN Fails(t, o, "checkUserAppPermission")
    ELSE IF data.rows = <<>> THEN Returns(t, success(NoRow))
    ELSE Returns(t, success(data.rows[Len(data.rows)]))

checkUserAppPermission(t, data, o) ==
    IF o # "ok" THEN Fails(t, o, "checkUserAppPermission")
    ELSE IF FirstRow(data) = <<>> THEN Returns(t, success(NoRow))
    ELSE Returns(t, success(FirstRow(data)))

incrementAppUsage(t, data, o) ==
    IF o # "ok" THEN Fails(t, o, "incrementAppUsage")
    ELSE Returns(t, success(FirstRow(data)))

searchUsersForGroup(t, data, o) ==
    IF o # "ok" THEN Fails(t, o, "searchUsersForGroup")
    ELSE Returns(t, success(data))

\* One call of a function of the data layer, from the admin pages or the app
\* list: dbCall keeps what was asked, how Supabase answered and the Result.
Called(fn, args, o, cnt, r) ==
    /\ dbCall' = [fn |-> fn, args |-> args, outcome |-> o, counts |-> cnt,
                  result |-> r.result]
    /\ tables' = r.tables
    /\ UNCHANGED <<hookVars, execution, chatflowStop>>

DbNext ==
    \/ \E o \in SupabaseOutcomes, cnt \in [tables.groups -> SupabaseOutcomes] :
           Called("getGroups", <<>>, o, IF o = "ok" THEN cnt ELSE <<>>,
                  getGroups(tables, o, cnt))
    \/ \E g \in GroupIds, o \in SupabaseOutcomes :
           Called("createGroup", [group |-> g], o, <<>>,
                  createGroup(tables, g, o))
    \/ \E g \in GroupIds, o \in SupabaseOutcomes :
           Called("updateGroup", [group |-> g], o, <<>>,
                  updateGroup(tables, g, o))
    \/ \E g \in GroupIds, o \in SupabaseOutcomes :
           Called("deleteGroup", [group |-> g], o, <<>>,
                  deleteGroup(tables, g, o))
    \/ \E g \in GroupIds, o \in SupabaseOutcomes :
           Called("getGroupMembers", [group |-> g], o, <<>>,
                  getGroupMembers(tables, g, o))
    \/ \E g \in GroupIds, o \in SupabaseOutcomes :
           Called("addGroupMember", [group |-> g, user |-> UserId], o, <<>>,
                  addGroupMember(tables, g, UserId, o))
    \/ \E g \in GroupIds, o \in SupabaseOutcomes :
           Called("removeGroupMember", [group |-> g, user |-> UserId], o, <<>>,
                  removeGroupMember(tables, g, UserId, o))
    \/ \E g \in GroupIds, o \in SupabaseOutcomes :
           Called("getGroupAppPermissions", [group |-> g], o, <<>>,
                  getGroupAppPermissions(tables, g, o))
    \/ \E g \in GroupIds, a \in ServiceInstanceIds, e \in BOOLEAN, q \in Quotas,
          o \in SupabaseOutcomes :
           Called("setGroupAppPermission",
                  [group |-> g, app |-> a, is_enabled |-> e, usage_quota |-> q],
                  o, <<>>, setGroupAppPermission(tables, g, a, e, q, o))
    \/ \E g \in GroupIds, a \in ServiceInstanceIds, o \in SupabaseOutcomes :
           Called("removeGroupAppPermission", [group |-> g, app |-> a], o, <<>>,
                  removeGroupAppPermission(tables, g, a, o))
    \/ \E a \in Apps, o \in SupabaseOutcomes :
           Called("removeAllGroupAppPermissions", [app |-> a], o, <<>>,
                  removeAllGroupAppPermissions(tables, a, o))
    \/ \E data \in ShortData, o \in SupabaseOutcomes :
           Called("getUserAccessibleApps", [data |-> data], o, <<>>,
                  getUserAccessibleApps(tables, data.rows, o))
    \/ \E data \in RpcData, o \in SupabaseOutcomes :
           Called("checkUserAppPermission", [data |-> data], o, <<>>,
                  checkUserAppPermission(tables, data, o))
    \/ \E data \in ShortData, o \in SupabaseOutcomes :
           Called("incrementAppUsage", [data |-> data], o, <<>>,
                  incrementAppUsage(tables, data, o))
    \/ \E data \in ShortData, o \in SupabaseOutcomes :
           Called("searchUsersForGroup", [data |-> data], o, <<>>,
                  searchUsersForGroup(tables, data.rows, o))

\* The admin pages and the app list call the data layer.
DbInit == InitWith(NoBudget)
DbSpec == DbInit /\ [][DbNext]_vars

(***************************************************************************)
(* lib/hooks/use-chatflow-interface.ts, over useChatflowExecutionStore.    *)
(* A node has an id (its place in nodes), a status, an endTime once it has  *)
(* ended, and the iterations and parallel branches that run inside it.     *)
(***************************************************************************)
Part(status, ended) == [status |-> status, endTime |-> ended]
Node(status, ended) ==
    [status |-> status, endTime |-> ended, iterations |-> <<>>,
     parallelBranches |-> <<>>]

\* the actions of the store
startExecution(e) == [nodes |-> <<>>, isExecuting |-> TRUE]
stopExecution(e) == [e EXCEPT !.isExecuting = FALSE]
updateNode(e, i, status) ==
    [e EXCEPT !.nodes[i].status = status, !.nodes[i].endTime = TRUE]
updateIteration(e, i, j, status) ==
    [e EXCEPT !.nodes[i].iterations[j] = Part(status, TRUE)]
updateParallelBranch(e, i, j, status) ==
    [e EXCEPT !.nodes[i].parallelBranches[j] = Part(status, TRUE)]

\* lines 118-132 and 135-149: the running iterations, then the running
\* branches, of node i of the snapshot, from the j-th on
RECURSIVE StopIterations(_, _, _, _)
StopIterations(e, nodes, i, j) ==
    IF j > Len(nodes[i].iterations) THEN e
    ELSE StopIterations(IF nodes[i].iterations[j].status = "running"
                        THEN updateIteration(e, i, j, "failed") ELSE e,
                        nodes, i, j + 1)

RECURSIVE StopBranches(_, _, _, _)
StopBranches(e, nodes, i, j) ==
    IF j > Len(nodes[i].parallelBranches) THEN e
    ELSE StopBranches(IF nodes[i].parallelBranches[j].status = "running"
                      THEN updateParallelBranch(e, i, j, "failed") ELSE e,
                      nodes, i, j + 1)

\* lines 107-150: nodes.forEach over the snapshot, from node i on
RECURSIVE StopNodesFrom(_, _, _)
StopNodesFrom(e, nodes, i) ==
    IF i > Len(nodes) THEN e
    ELSE LET e1 == IF nodes[i].status = "running"
                   THEN updateNode(e, i, "failed") ELSE e
             e2 == StopIterations(e1, nodes, i, 1)
             e3 == StopBranches(e2, nodes, i, 1)
         IN  StopNodesFrom(e3, nodes, i + 1)

RECURSIVE StopStatusOnlyFrom(_, _, _)
StopStatusOnlyFrom(e, nodes, i) ==
    IF i > Len(nodes) THEN e
    ELSE StopStatusOnlyFrom(IF nodes[i].status = "running"
                            THEN updateNode(e, i, "failed") ELSE e,
                            nodes, i + 1)

StopTrackingNodesOnly(e) == stopExecution(StopStatusOnlyFrom(e, e.nodes, 1))

\* lines 98-153: what follows the chat stop
StopTracking(e) == stopExecution(StopNodesFrom(e, e.nodes, 1))

\* lines 31-65: handleChatflowSubmit starts the tracking and calls
\* handleSubmit, which goes on or is turned away by its guards
ChatflowSubmit ==
    /\ execution' = startExecution(execution)
    /\ \/ \E s \in Subs : SubmitCall(s)
       \/ SubmitBlocked /\ UNCHANGED hookVars
    /\ UNCHANGED <<tables, dbCall, chatflowStop>>

\* handleNodeEvent, which the stream calls with the node events of Dify
NodeEvent(e) ==
    /\ budget.node > 0
    /\ execution.isExecuting
    /\ execution' = e
    /\ budget' = [budget EXCEPT !.node = @ - 1]
    /\ UNCHANGED <<store, difyConversationId, dbConversationUUID,
                   conversationAppId, submitDbSnapshot, isSubmittingRef,
                   chunkBufferRef, appendTimerRef, lastStreamingCheckRef,
                   currentUserId, currentAppId, isWelcomeScreen, windowPath,
                   currentPathname, conversations, lookups, pc, loc,
                   cbPending, finalQueries, stopCall, stopLookups, saves,
                   asstFirst, tables, dbCall, chatflowStop>>

NodeStarted ==
    /\ Len(execution.nodes) < MaxNodes
    /\ NodeEvent([execution EXCEPT !.nodes = Append(@, Node("running", FALSE))])

NodeFinished(i) ==
    /\ execution.nodes[i].status = "running"
    /\ NodeEvent(updateNode(execution, i, "completed"))

IterationStarted(i) ==
    /\ execution.nodes[i].status = "running"
    /\ Len(execution.nodes[i].iterations) < MaxParts
    /\ NodeEvent([execution EXCEPT !.nodes[i].iterations =
                                       Append(@, Part("running", FALSE))])

IterationCompleted(i, j) ==
    /\ execution.nodes[i].iterations[j].status = "running"
    /\ NodeEvent(updateIteration(execution, i, j, "completed"))

ParallelBranchStarted(i) ==
    /\ execution.nodes[i].status = "running"
    /\ Len(execution.nodes[i].parallelBranches) < MaxParts
    /\ NodeEvent([execution EXCEPT !.nodes[i].parallelBranches =
                                       Append(@, Part("running", FALSE))])

ParallelBranchFinished(i, j) ==
    /\ execution.nodes[i].parallelBranches[j].status = "running"
    /\ NodeEvent(updateParallelBranch(execution, i, j, "completed"))

\* lines 89-94: handleStopProcessing calls the chat stop, which returns or
\* awaits the remote stop; once it has returned, lines 98-153 run
ChatflowStopCall ==
    /\ chatflowStop # "awaiting"
    /\ StopCall
    /\ IF stopCall'.pc = "remote"
       THEN /\ chatflowStop' = "awaiting"
            /\ UNCHANGED execution
       ELSE /\ chatflowStop' = "returned"
            /\ execution' = StopTracking(execution)
    /\ UNCHANGED <<tables, dbCall>>

\* lines 94-153: the chat stop returns after the remote stop
ChatflowStopResumed(ok) ==
    /\ chatflowStop = "awaiting"
    /\ StopRemoteDone(ok)
    /\ chatflowStop' = "returned"
    /\ execution' = StopTracking(execution)
    /\ UNCHANGED <<tables, dbCall>>

\* lines 155-160: the chat stop throws
ChatflowStopThrown ==
    /\ chatflowStop # "awaiting"
    /\ stopCall.pc = "idle"
    /\ budget.stop > 0
    /\ budget' = [budget EXCEPT !.stop = @ - 1]
    /\ chatflowStop' = "thrown"
    /\ execution' = stopExecution(execution)
    /\ UNCHANGED <<store, difyConversationId, dbConversationUUID,
                   conversationAppId, submitDbSnapshot, isSubmittingRef,
                   chunkBufferRef, appendTimerRef, lastStreamingCheckRef,
                   currentUserId, currentAppId, isWelcomeScreen, windowPath,
                   currentPathname, conversations, lookups, pc, loc,
                   cbPending, finalQueries, stopCall, stopLookups, saves,
                   asstFirst, tables, dbCall>>

\* A chatflow app: one submission, the node events of its stream, and a stop.
ChatflowInit == InitWith(ChatflowBudget)
ChatflowNext ==
    \/ ChatflowSubmit
    \/ \E s \in Subs, a \in Apps : SubmitStart(s, a) /\ UNCHANGED libVars
    \/ \E s \in Subs : \E t \in {NULL, TaskOf(s)} : SubmitInitiated(s, t) /\ UNCHANGED libVars
    \/ \E s \in Subs : DbIdCallback(s) /\ UNCHANGED libVars
    \/ \E s \in Subs, o \in LookupOutcomes : SubmitLookupNew(s, o) /\ UNCHANGED libVars
    \/ \E s \in Subs, imm \in BOOLEAN : StreamChunk(s, imm) /\ UNCHANGED libVars
    \/ \E s \in Subs : StreamEnd(s) /\ UNCHANGED libVars
    \/ AppendTimerFire /\ UNCHANGED libVars
    \/ \E s \in Subs, d \in BOOLEAN : SubmitCompletion(s, d) /\ UNCHANGED libVars
    \/ \E s \in Subs, o \in LookupOutcomes : SubmitRequery(s, o) /\ UNCHANGED libVars
    \/ NodeStarted
    \/ \E i \in DOMAIN execution.nodes : NodeFinished(i)
    \/ \E i \in DOMAIN execution.nodes : IterationStarted(i)
    \/ \E i \in DOMAIN execution.nodes :
          \E j \in DOMAIN execution.nodes[i].iterations : IterationCompleted(i, j)
    \/ \E i \in DOMAIN execution.nodes : ParallelBranchStarted(i)
    \/ \E i \in DOMAIN execution.nodes :
          \E j \in DOMAIN execution.nodes[i].parallelBranches :
              ParallelBranchFinished(i, j)
    \/ ChatflowStopCall
    \/ \E ok \in BOOLEAN : ChatflowStopResumed(ok)
    \/ ChatflowStopThrown
    \/ \E i \in DOMAIN stopLookups, o \in LookupOutcomes : StopLookupDone(i, o) /\ UNCHANGED libVars
ChatflowSpec == ChatflowInit /\ [][ChatflowNext]_vars

(***************************************************************************)
(* Properties.                                                             *)
(***************************************************************************)
\* invocation s of handleSubmit has been called and has not returned
InProgress(s) == pc[s] \notin {"idle", "done"}

\* C1: at most one submission is processed at a time: of two invocations of
\* handleSubmit that are in progress together, one has added no user message
\* (and so has opened no stream).
C1_OneSubmissionAtATime ==
    \A s, t \in Subs :
        (s # t /\ InProgress(s) /\ InProgress(t))
            => (loc[s].userMsg = NoMsg \/ loc[t].userMsg = NoMsg)

\* the chunks the stream of submission s has yielded, in order
Yielded(s) == [k \in 1..loc[s].yielded |-> Chunk(s, k)]

\* C2: when the answer stream of a submission has ended normally (no manual
\* stop, no error), the text of its assistant message is the in-order
\* concatenation of the chunks the stream yielded.
C2_TextIsConcatenation ==
    \A s \in Subs :
        loc[s].ended = "end" =>
            IF loc[s].asst = NoMsg
            THEN loc[s].yielded = 0
            ELSE \/ store.messages[loc[s].asst].wasManuallyStopped
                 \/ store.messages[loc[s].asst].error
                 \/ store.messages[loc[s].asst].text = Yielded(s)

\* a step in which a call of handleStopProcessing returns
StopReturns ==
    \/ budget'.stop < budget.stop /\ stopCall'.pc = "idle"
    \/ stopCall.pc = "remote" /\ stopCall'.pc = "idle"

\* C3: whenever a call of handleStopProcessing returns, isWaitingForResponse
\* is false and isSubmittingRef is false, whatever state it was called in.
C3_StopAlwaysResets ==
    [][StopReturns => (~store'.isWaitingForResponse /\ ~isSubmittingRef')]_vars

\* the streaming message is still streaming and its text is as last recorded
StaleStreaming ==
    LET id == store.streamingMessageId IN
    /\ id # NoMsg
    /\ id \in MsgIds(store)
    /\ store.messages[id].isStreaming
    /\ lastStreamingCheckRef.messageId = id
    /\ lastStreamingCheckRef.content = store.messages[id].text

\* the streaming message is still streaming and its text has n chunks
StalledAt(n) ==
    LET id == store.streamingMessageId IN
    /\ id # NoMsg
    /\ id \in MsgIds(store)
    /\ store.messages[id].isStreaming
    /\ Len(store.messages[id].text) = n

\* Under the timer that fires every 10 s, a check that finds the streaming
\* message stale repairs it exactly when more than 30 s have passed since its
\* content was recorded: the message is finalized, isWaitingForResponse is
\* false, currentTaskId is null and the check record is reset.  Before that
\* the check leaves the store alone.
C4_RepairsWhenExpired ==
    [][(lastStreamingCheckRef' # lastStreamingCheckRef /\ StaleStreaming) =>
         LET id == store.streamingMessageId
             elapsed == lastStreamingCheckRef.age + CheckInterval
         IN IF elapsed > ZombieThreshold
            THEN /\ ~store'.messages[id].isStreaming
                 /\ store'.streamingMessageId = NoMsg
                 /\ ~store'.isWaitingForResponse
                 /\ store'.currentTaskId = NULL
                 /\ lastStreamingCheckRef' = NoCheck
            ELSE /\ store' = store
                 /\ lastStreamingCheckRef' =
                        [lastStreamingCheckRef EXCEPT !.age = elapsed]]_vars

\* C4: zombie-stream self-healing: a message that remains the streaming message
\* with isStreaming true and a text that has stopped changing is eventually
\* finalized by the periodic check, at the first check at which more than 30 s
\* have passed since its content was recorded, with isWaitingForResponse
\* false, currentTaskId null and the check record reset.
C4_ZombieSelfHealing ==
    /\ C4_RepairsWhenExpired
    /\ \A n \in 0..MaxChunks : StalledAt(n) ~> ~StalledAt(n)

\* the periodic check has repaired a stalled message and is saving it
C4_Witness ==
    \E r \in saves :
        /\ r.by = "zombie"
        /\ ~store.messages[r.msg].isStreaming
        /\ lastStreamingCheckRef = NoCheck

\* C5: no save the hook initiates (saveMessage, saveStoppedAssistantMessage,
\* saveErrorPlaceholder; from handleSubmit, handleStopProcessing or the
\* periodic check) carries a null database conversation id.
C5_SavesCarryConversationId == \A r \in saves : r.conv # NULL

\* handleSubmit has saved after the stream, and a repair has saved too
C5_Witness ==
    /\ \E r \in saves : r.by = "post"
    /\ \E r \in saves : r.by \in {"zombie", "stopRepair"}

\* the saves of assistant message id initiated by handleStopProcessing, by
\* handleSubmit after the stream or in its finally block, or by the periodic
\* check
AssistantSaves(id) ==
    {r \in saves : /\ r.msg = id
                   /\ r.by \in {"stop", "stopRepair", "post", "finally", "zombie"}}

\* C6: for one streamed assistant message the hook initiates at most one save
\* across handleStopProcessing, the post-stream logic and the finally block of
\* handleSubmit, and the periodic check.
C6_OneAssistantSave ==
    \A id \in MsgIds(store) :
        ~store.messages[id].isUser => Cardinality(AssistantSaves(id)) <= 1

\* C7: a submission made while conversationAppId is non-null sends its message
\* to that app.
C7_SendsToOriginalApp ==
    \A s \in Subs :
        (loc[s].histApp # NULL /\ loc[s].appId # NULL)
            => loc[s].appId = loc[s].histApp

\* a step in which the route effect runs, for the pathname currentPathname'
RouteRan == currentPathname' # currentPathname

\* a step in which a lookup of the route effect returns
RouteLookupReturned == Len(lookups') < Len(lookups)

\* what a route lookup for lookups[i] leaves in dbConversationUUID and
\* conversationAppId: the id and app_id of the record, null without a record
\* or when the lookup failed
RouteLookupSets(i) ==
    /\ lookups' = RemoveAt(lookups, i)
    /\ LET rec == RecordOf(conversations, lookups[i]) IN
       IF budget'.fail < budget.fail
       THEN dbConversationUUID' = NULL /\ conversationAppId' = NULL
       ELSE dbConversationUUID' = rec.id /\ conversationAppId' = rec.app_id

C8_NewOrTemp(p) == p = NewPath \/ Includes(p, TempMark)

C8_RouteListener(isConversation) ==
    /\ RouteRan =>
         LET p == currentPathname' IN
         /\ isConversation[p] => difyConversationId' = Tail(p)
         /\ C8_NewOrTemp(p) =>
              /\ difyConversationId' = NoId
              /\ dbConversationUUID' = NULL
              /\ conversationAppId' = NULL
    /\ RouteLookupReturned => \E i \in DOMAIN lookups : RouteLookupSets(i)

\* the pathnames of the model
Paths == NavPaths \cup {TempPath} \cup {ConvPath(NewConvId(s)) : s \in Subs}

\* /chat/<id>, neither /chat/new nor a /chat/temp- path
C8_ChatIdPath ==
    [p \in Paths |-> /\ StartsWith(p, ChatPrefix)
                     /\ Len(p) > Len(ChatPrefix)
                     /\ p # NewPath
                     /\ ~StartsWith(p, TempMark)]

\* /chat/<id> with neither '/chat/new' nor '/chat/temp-' anywhere in it
C8_PlainChatIdPath ==
    [p \in Paths |-> /\ StartsWith(p, ChatPrefix)
                     /\ ~Includes(p, NewPath)
                     /\ ~Includes(p, TempMark)]

\* C8 as stated: on every pathname change, for a path /chat/<id> that is neither
\* /chat/new nor a /chat/temp- path, difyConversationId becomes <id>, and the
\* lookup leaves the record's id and app_id (null without a record or on
\* failure); for /chat/new or a /chat/temp- path all three ids become null.
C8_AsStated == [][C8_RouteListener(C8_ChatIdPath)]_vars

\* C8: the same for a path /chat/<id> that contains neither '/chat/new' nor
\* '/chat/temp-'.
C8_RouteListenerSetsIds == [][C8_RouteListener(C8_PlainChatIdPath)]_vars

\* the route listener has found the record of the historical conversation
C8_Witness ==
    /\ currentPathname = ConvPath(OldConv)
    /\ difyConversationId = OldConv
    /\ dbConversationUUID = OldConvRecord.id
    /\ conversationAppId = OldConvRecord.app_id

\* C9: the assistant message of a submission is never written to the database
\* before the user message of the same submission.
C9_UserBeforeAssistant == asstFirst = {}

\* the stop has done its local part for message id
StoppedLocally(st, id) ==
    /\ id \in MsgIds(st)
    /\ st.messages[id].wasManuallyStopped
    /\ st.messages[id].stopped_manually
    /\ st.messages[id].persistenceStatus = "pending"
    /\ ~st.isWaitingForResponse

\* the streaming message has content and there is no task id
C10_TakenForZombie ==
    LET id == store.streamingMessageId IN
    /\ id \in MsgIds(store)
    /\ store.messages[id].isStreaming
    /\ HasContent(store.messages[id].text)
    /\ store.currentTaskId = NULL

\* a call of handleStopProcessing for a logged-in user with a streaming
\* message (and, if excluded, one that is not taken for a zombie): the buffer
\* is flushed into the message at once, and when the call returns, with or
\* without the remote stop, the message is marked and isWaitingForResponse is
\* false
C10_LocalStop(excluded) ==
    /\ (/\ budget'.stop < budget.stop
        /\ currentUserId # NULL
        /\ store.streamingMessageId # NoMsg
        /\ ~excluded)
         => LET id == store.streamingMessageId IN
            /\ chunkBufferRef' = <<>>
            /\ store'.messages[id].text = store.messages[id].text \o chunkBufferRef
            /\ stopCall'.pc = "idle" => StoppedLocally(store', id)
    /\ (stopCall.pc = "remote" /\ stopCall'.pc = "idle")
         => StoppedLocally(store', stopCall.sid)

ChunkOwner(c) == c \div 10

\* C13: a chunk yielded by the answer stream of one submission is only ever
\* appended to the assistant message created by that same submission.
C13_ChunksStayWithTheirSubmission ==
    \A id \in MsgIds(store) :
        (~store.messages[id].isUser /\ ~store.messages[id].error) =>
            \A i \in 1..Len(store.messages[id].text) :
                ChunkOwner(store.messages[id].text[i]) = store.messages[id].sub

\* a step in which invocation s of handleSubmit decides between the new and
\* the existing conversation flow (lines 373-376)
DecidesFlow(s) == pc[s] = "config" /\ pc'[s] \notin {"config", "done"}

\* a step in which invocation s calls streamDifyChat (line 608)
CallsStreamDifyChat(s) == pc[s] # "streamCall" /\ pc'[s] = "streamCall"

\* The flow of a submission, with dify(s) standing for difyConversationId as
\* the submission reads it: the submission is treated as new exactly when the
\* URL is /chat/new, contains /chat/temp- or dify(s) is null; a new
\* conversation goes to initiateNewConversation; streamDifyChat is called
\* with a non-null conversation_id equal to dify(s).
C14_Flow(dify) ==
    \A s \in Subs :
        /\ DecidesFlow(s) =>
              /\ loc'[s].isNew <=>
                    \/ windowPath' = NewPath
                    \/ Includes(windowPath', TempMark)
                    \/ dify[s] = NoId
              /\ loc'[s].isNew <=> pc'[s] = "initiate"
        /\ CallsStreamDifyChat(s) =>
              /\ ~loc'[s].isNew
              /\ loc'[s].dify # NoId
              /\ loc'[s].dify = dify[s]

\* C14 as stated: with the difyConversationId of the hook's state at the time
\* of the decision and of the call of streamDifyChat.
C14_AsStated == [][C14_Flow([s \in Subs |-> difyConversationId])]_vars

\* C14: with the difyConversationId of the render in which handleSubmit was
\* called (the value its closure holds).
C14_FlowFollowsCapturedId == [][C14_Flow([s \in Subs |-> loc[s].dify])]_vars

\* a submission in a historical conversation has called streamDifyChat
C14_Witness ==
    \E s \in Subs : pc[s] = "streamCall" /\ loc[s].dify = OldConv /\ ~loc[s].isNew

\* the saves of the user message of submission s the hook has initiated
UserSaves(s) == {r \in saves : loc[s].userMsg # NoMsg /\ r.msg = loc[s].userMsg}

\* C15: within one submission the user message is saved at most once: once a
\* save of it has been initiated, every later save point skips it.
C15_UserSavedOnce == \A s \in Subs : Cardinality(UserSaves(s)) <= 1

\* C16: a lookup the route listener started for an earlier pathname never
\* overwrites state that belongs to a later pathname: when a lookup returns
\* and the pathname is no longer the one of the conversation it was started
\* for, dbConversationUUID and conversationAppId stay as they are.
C16_StaleLookupIgnored ==
    [][RouteLookupReturned =>
         \E i \in DOMAIN lookups :
             /\ lookups' = RemoveAt(lookups, i)
             /\ currentPathname # ConvPath(lookups[i]) =>
                    /\ dbConversationUUID' = dbConversationUUID
                    /\ conversationAppId' = conversationAppId]_vars

\* C17: persistence status is monotone once saved: after an assistant message
\* has been saved (persistenceStatus 'saved', db_id set) no step of the hook
\* sets its persistenceStatus to anything else.
C17_SavedStaysSaved ==
    [][\A id \in MsgIds(store) :
         (/\ ~store.messages[id].isUser
          /\ store.messages[id].persistenceStatus = "saved"
          /\ store.messages[id].db_id)
             => store'.messages[id].persistenceStatus = "saved"]_vars

\* a request of the last call returned an error or rejected
RequestFailed ==
    \/ dbCall.outcome # "ok"
    \/ \E g \in DOMAIN dbCall.counts : dbCall.counts[g] # "ok"

\* C11, as stated: every function of the data layer returns a Result, a
\* failure when any of its Supabase requests returned an error or threw, a
\* success otherwise.
C11_AsStated ==
    dbCall.fn # "none" =>
        /\ dbCall.result.success \in BOOLEAN
        /\ dbCall.result.success <=> ~RequestFailed

\* C11, amended: every function of the data layer returns a Result, a failure
\* when its request returned an error or any request threw, a success
\* otherwise; getGroups answers an error of a member count query with a
\* member_count of 0 in a success.
C11_ResultOfEveryCall ==
    dbCall.fn # "none" =>
        /\ dbCall.result.success \in BOOLEAN
        /\ dbCall.result.success <=>
               /\ dbCall.outcome = "ok"
               /\ \A g \in DOMAIN dbCall.counts : dbCall.counts[g] # "throw"
        /\ ~dbCall.result.success => dbCall.result.error # NULL
        /\ (dbCall.fn = "getGroups" /\ dbCall.result.success) =>
               \A row \in dbCall.result.data :
                   row.member_count =
                       IF dbCall.counts[row.id] = "error" THEN 0
                       ELSE Cardinality(MembersOf(tables, row.id))

\* getGroups has returned a success although the count of the members of a
\* group that has a member returned an error
C11_Witness ==
    /\ dbCall.fn = "getGroups"
    /\ dbCall.result.success
    /\ \E row \in dbCall.result.data :
           /\ dbCall.counts[row.id] = "error"
           /\ MembersOf(tables, row.id) # {}
           /\ row.member_count = 0

\* the last call was a successful setGroupAppPermission
SetSucceeded(e) ==
    /\ dbCall.fn = "setGroupAppPermission"
    /\ dbCall.result.success
    /\ dbCall.args.is_enabled = e

\* the state a successful setGroupAppPermission leaves for its pair
SetLeaves ==
    LET rows == PermissionsAt(tables, dbCall.args.group, dbCall.args.app)
    IN  /\ SetSucceeded(TRUE) =>
               /\ rows = {dbCall.result.data}
               /\ dbCall.result.data.is_enabled
        /\ SetSucceeded(FALSE) =>
               /\ rows = {}
               /\ ~dbCall.result.data.is_enabled
               /\ dbCall.result.data =
                      Placeholder(dbCall.args.group, dbCall.args.app)

C19_QuotaIsWritten ==
    SetSucceeded(TRUE) =>
        \A p \in PermissionsAt(tables, dbCall.args.group, dbCall.args.app) :
            p.usage_quota = dbCall.args.usage_quota

\* what the check_user_app_permission RPC of the last call returned
RpcAnswer == dbCall.args.data

\* C20: checkUserAppPermission reports no access the RPC did not grant: an
\* error of the RPC or a thrown exception gives a failure, no row gives a
\* success with has_access false, and has_access is true only when the first
\* row of the RPC says so.
C20_NoAccessWithoutGrant ==
    dbCall.fn = "checkUserAppPermission" =>
        /\ dbCall.outcome # "ok" => ~dbCall.result.success
        /\ (dbCall.outcome = "ok" /\ RpcAnswer.rows = <<>>) =>
               /\ dbCall.result.success
               /\ ~dbCall.result.data.has_access
        /\ (dbCall.result.success /\ dbCall.result.data.has_access) =>
               /\ RpcAnswer.rows # <<>>
               /\ RpcAnswer.rows[1].has_access
        /\ (dbCall.outcome = "ok" /\ RpcAnswer.rows # <<>>) =>
               dbCall.result = success(RpcAnswer.rows[1])

\* the RPC returned two rows, the first without access and the second with
\* it, and checkUserAppPermission reported no access
C20_Witness ==
    /\ dbCall.fn = "checkUserAppPermission"
    /\ dbCall.result.success
    /\ Len(RpcAnswer.rows) = 2
    /\ ~RpcAnswer.rows[1].has_access
    /\ RpcAnswer.rows[2].has_access
    /\ ~dbCall.result.data.has_access

\* the statuses of the nodes, iterations and parallel branches of e
Running(e) ==
    \E i \in DOMAIN e.nodes :
        \/ e.nodes[i].status = "running"
        \/ \E j \in DOMAIN e.nodes[i].iterations :
               e.nodes[i].iterations[j].status = "running"
        \/ \E j \in DOMAIN e.nodes[i].parallelBranches :
               e.nodes[i].parallelBranches[j].status = "running"

\* what was running in e is failed, with an endTime, in f
RunningHasFailed(e, f) ==
    /\ Len(f.nodes) = Len(e.nodes)
    /\ \A i \in DOMAIN e.nodes :
        /\ e.nodes[i].status = "running" =>
               f.nodes[i].status = "failed" /\ f.nodes[i].endTime
        /\ \A j \in DOMAIN e.nodes[i].iterations :
               e.nodes[i].iterations[j].status = "running" =>
                   f.nodes[i].iterations[j] = Part("failed", TRUE)
        /\ \A j \in DOMAIN e.nodes[i].parallelBranches :
               e.nodes[i].parallelBranches[j].status = "running" =>
                   f.nodes[i].parallelBranches[j] = Part("failed", TRUE)

\* this step is the return, or the throw, of the chatflow handleStopProcessing
StopEndsWith(how) ==
    /\ chatflowStop' = how
    /\ chatflowStop = "awaiting" \/ budget'.stop # budget.stop

\* C12: when the chatflow handleStopProcessing returns normally, no node,
\* iteration or parallel branch is still running, each one that was running
\* is failed with an endTime, and stopExecution has been called; when the
\* chat stop throws, stopExecution has been called all the same.
C12_StopLeavesNothingRunning ==
    [][/\ StopEndsWith("returned") =>
              /\ ~Running(execution')
              /\ RunningHasFailed(execution, execution')
              /\ ~execution'.isExecuting
       /\ StopEndsWith("thrown") => ~execution'.isExecuting]_vars

\* the stop has returned, and has failed a node, an iteration and a parallel
\* branch that were running
C12_Witness ==
    /\ chatflowStop = "returned"
    /\ ~execution.isExecuting
    /\ \E i \in DOMAIN execution.nodes :
           /\ execution.nodes[i].status = "failed"
           /\ execution.nodes[i].iterations = <<Part("failed", TRUE)>>
           /\ execution.nodes[i].parallelBranches = <<Part("failed", TRUE)>>

=============================================================================
